---- MODULE Spec2Model ----
(***************************************************************************)
(* The token factory registry of packages/bindings-test (the mock chain    *)
(* module TokenFactoryModule) as a state machine.                          *)
(*                                                                         *)
(* Strings that the code inspects (addresses, subdenoms, denoms) are       *)
(* sequences of one-character strings, so that format!, len() and          *)
(* contains('/') are computed as the code computes them.  Strings the      *)
(* code only stores (metadata fields) are plain strings.  An Option<T> is  *)
(* a sequence of length at most one: <<>> is None, <<v>> is Some(v).       *)
(***************************************************************************)
EXTENDS Integers, Sequences, FiniteSets, TLC

VARIABLES
    ADMIN,              \* Map<&str, Addr>: denom -> admin
    METADATA,           \* Map<&str, Metadata>: denom -> metadata
    DENOMS_BY_CREATOR,  \* Map<&Addr, Vec<String>>: creator -> denoms
    balances,           \* the bank ledger: <<address, denom>> -> amount held
    last                \* the last message executed and what it returned

vars == <<ADMIN, METADATA, DENOMS_BY_CREATOR, balances, last>>

registry == <<ADMIN, METADATA, DENOMS_BY_CREATOR, balances>>

----------------------------------------------------------------------------
(* Bounds and inputs *)

\* Cap on the total amount the ledger holds (stops the mint counter).
MaxSupply == 2

\* subdenom.len() > 44 is rejected
MaxSubdenomLen == 44

\* creator.len() > 75 is rejected
MaxCreatorLen == 75

\* full_denom.len() > 128 is rejected
MaxDenomLen == 128

\* full_denom.len() < 3 is rejected
MinDenomLen == 3

Rep(c, n) == [i \in 1..n |-> c]

govner == <<"g", "o", "v", "n", "e", "r">>

townies == <<"t", "o", "w", "n", "i", "e", "s">>

fundz == <<"f", "u", "n", "d", "z">>

\* The senders of messages (Addr values the chain hands to the module).
Senders == {govner, townies}

\* Subdenoms offered to CreateDenom: a usual one and one that is too long.
Subdenoms == {fundz, Rep("s", MaxSubdenomLen + 1)}

\* new_admin_address values: identities, the empty string, a short non-address.
NewAdmins == Senders \cup {<<>>, <<"n", "o">>}

\* mint_to_address values: identities the ledger accepts.
Recipients == {townies}

Amounts == {0, 1}

Metadata(description, display, name, symbol) ==
    [description |-> description, denom_units |-> <<>>, base |-> <<>>,
     display |-> display, name |-> name, symbol |-> symbol]

MetaFundz == Metadata(<<"Awesome token, get it now!">>, <<"FUNDZ">>, <<"Fundz pays">>, <<"FUNDZ">>)

MetaOther == Metadata(<<>>, <<>>, <<"Other">>, <<>>)

Metadatas == {MetaFundz, MetaOther}

----------------------------------------------------------------------------
(* Storage helpers (cw_storage_plus::Map) *)

may_load(map, key) == IF key \in DOMAIN map THEN <<map[key]>> ELSE <<>>

\* Mutant: an insert that does not replace an entry already stored.
save_if_absent(map, key, value) ==
    [k \in DOMAIN map \cup {key} |-> IF k \in DOMAIN map THEN map[k] ELSE value]

save(map, key, value) ==
    [k \in DOMAIN map \cup {key} |-> IF k = key THEN value ELSE map[k]]

Contains(s, c) == \E i \in 1..Len(s) : s[i] = c

----------------------------------------------------------------------------
(* build_denom *)

FactoryPrefix == <<"f", "a", "c", "t", "o", "r", "y", "/">>

FullDenom(creator, subdenom) == FactoryPrefix \o creator \o <<"/">> \o subdenom

\* Mutant: the creator is not searched for a '/'.
build_denom_any_creator(creator, subdenom) ==
    LET full_denom == FullDenom(creator, subdenom) IN
    IF \/ Len(full_denom) < MinDenomLen
       \/ Len(full_denom) > MaxDenomLen
       \/ Len(subdenom) > MaxSubdenomLen
       \/ Len(creator) > MaxCreatorLen
    THEN [ok |-> FALSE, err |-> "InvalidFullDenom", denom |-> full_denom]
    ELSE [ok |-> TRUE, err |-> "Ok", denom |-> full_denom]

\* Mutant: the creator's length is not checked.
build_denom_long_creator(creator, subdenom) ==
    LET full_denom == FullDenom(creator, subdenom) IN
    IF \/ Len(full_denom) < MinDenomLen
       \/ Len(full_denom) > MaxDenomLen
       \/ Contains(creator, "/")
       \/ Len(subdenom) > MaxSubdenomLen
    THEN [ok |-> FALSE, err |-> "InvalidFullDenom", denom |-> full_denom]
    ELSE [ok |-> TRUE, err |-> "Ok", denom |-> full_denom]

\* Mutant: the full denom may have one byte less.
build_denom_shorter_total(creator, subdenom) ==
    LET full_denom == FullDenom(creator, subdenom) IN
    IF \/ Len(full_denom) < MinDenomLen
       \/ Len(full_denom) > MaxDenomLen - 1
       \/ Contains(creator, "/")
       \/ Len(subdenom) > MaxSubdenomLen
       \/ Len(creator) > MaxCreatorLen
    THEN [ok |-> FALSE, err |-> "InvalidFullDenom", denom |-> full_denom]
    ELSE [ok |-> TRUE, err |-> "Ok", denom |-> full_denom]

build_denom(creator, subdenom) ==
    LET full_denom == FullDenom(creator, subdenom) IN
    IF \/ Len(full_denom) < MinDenomLen
       \/ Len(full_denom) > MaxDenomLen
       \/ Contains(creator, "/")
       \/ Len(subdenom) > MaxSubdenomLen
       \/ Len(creator) > MaxCreatorLen
    THEN [ok |-> FALSE, err |-> "InvalidFullDenom", denom |-> full_denom]
    ELSE [ok |-> TRUE, err |-> "Ok", denom |-> full_denom]

\* denom values offered to the messages that take a denom: every denom a
\* sender can create, and the bare subdenom, which is never created.
Denoms == {FullDenom(s, fundz) : s \in Senders} \cup {fundz}

----------------------------------------------------------------------------
(* The module's collaborators *)

\* Api::addr_validate of the mock Api the app is built with: the empty string
\* is refused ("human address too short"), as is any input under 3 bytes.
addr_validate(input) == Len(input) >= 3

RECURSIVE Sum(_, _)
Sum(f, keys) ==
    IF keys = {} THEN 0
    ELSE LET k == CHOOSE x \in keys : TRUE IN f[k] + Sum(f, keys \ {k})

TotalSupply == Sum(balances, DOMAIN balances)

\* query_balance: what the ledger holds of denom for address
Balance(address, denom) ==
    IF <<address, denom>> \in DOMAIN balances THEN balances[<<address, denom>>] ELSE 0

\* BankSudo::Mint { to_address, amount: coins(amount, denom) }
BankSudoMint(to_address, amount, denom) ==
    [to_address |-> to_address, amount |-> amount, denom |-> denom]

\* Mutant: the credit replaces the balance instead of adding to it.
CreditOverwrite(to_address, amount, denom) ==
    IF amount = 0 THEN balances
    ELSE save(balances, <<to_address, denom>>, amount)

\* The ledger's credit of a minted coin.
Credit(to_address, amount, denom) ==
    IF amount = 0 THEN balances
    ELSE save(balances, <<to_address, denom>>, Balance(to_address, denom) + amount)

----------------------------------------------------------------------------
(* What execute returned for the last message *)

NoArgs ==
    [subdenom |-> <<>>, new_admin_address |-> <<>>, amount |-> 0,
     address |-> <<>>, metadata |-> <<>>]

Returned(op, sender, denom, args, res, sudo) ==
    [op |-> op, sender |-> sender, denom |-> denom,
     subdenom |-> args.subdenom, new_admin_address |-> args.new_admin_address,
     amount |-> args.amount, address |-> args.address, metadata |-> args.metadata,
     res |-> res, sudo |-> sudo]

\* Mutant: the comparison of the admin with the sender is left out.
ensure_admin_exists_only(sender, denom) ==
    IF may_load(ADMIN, denom) = <<>> THEN "TokenDoesntExist" ELSE "Ok"

\* Mutant: a missing entry is taken for another admin's.
ensure_admin_default(sender, denom) ==
    LET admin == may_load(ADMIN, denom) IN
    IF admin = <<>> \/ admin[1] # sender THEN "NotTokenAdmin" ELSE "Ok"

\* "ensure we are admin of this denom (and it exists)"
ensure_admin(sender, denom) ==
    LET admin == may_load(ADMIN, denom) IN
    IF admin = <<>> THEN "TokenDoesntExist"
    ELSE IF admin[1] # sender THEN "NotTokenAdmin"
    ELSE "Ok"

Init ==
    /\ ADMIN = <<>>
    /\ METADATA = <<>>
    /\ DENOMS_BY_CREATOR = <<>>
    /\ balances = <<>>
    /\ last = Returned("Init", <<>>, <<>>, NoArgs, "Ok", <<>>)

----------------------------------------------------------------------------
(* TokenFactoryModule::execute, one action per message *)

\* A panic unwinds through App::execute: the program handles no further message.
Running == last.res # "Panic"

\* Mutant: the check that the denom was already created is left out.
CreateDenomResultNoExistsCheck(sender, subdenom) ==
    LET built == build_denom(sender, subdenom) IN
    IF ~built.ok THEN built.err ELSE "Ok"

CreateDenomResult(sender, subdenom) ==
    LET built == build_denom(sender, subdenom) IN
    IF ~built.ok THEN built.err
    ELSE IF may_load(ADMIN, built.denom) # <<>> THEN "TokenExists"
    ELSE "Ok"

\* Mutant: the new denom is put in front of the creator's list.
CreateDenomPrepends(sender, subdenom, metadata) ==
    LET new_token_denom == build_denom(sender, subdenom).denom
        res == CreateDenomResult(sender, subdenom)
        denoms == IF may_load(DENOMS_BY_CREATOR, sender) = <<>> THEN <<>>
                  ELSE DENOMS_BY_CREATOR[sender]
    IN
    /\ Running
    /\ last' = Returned("CreateDenom", sender, new_token_denom,
                        [NoArgs EXCEPT !.subdenom = subdenom, !.metadata = metadata],
                        res, <<>>)
    /\ IF res = "Ok"
       THEN /\ ADMIN' = save(ADMIN, new_token_denom, sender)
            /\ DENOMS_BY_CREATOR' =
                   save(DENOMS_BY_CREATOR, sender, <<new_token_denom>> \o denoms)
            /\ METADATA' = IF metadata # <<>>
                           THEN save(METADATA, new_token_denom, metadata[1])
                           ELSE METADATA
            /\ UNCHANGED balances
       ELSE UNCHANGED registry

\* Mutant: the metadata handed to CreateDenom is not stored.
CreateDenomDropsMetadata(sender, subdenom, metadata) ==
    LET new_token_denom == build_denom(sender, subdenom).denom
        res == CreateDenomResult(sender, subdenom)
        denoms == IF may_load(DENOMS_BY_CREATOR, sender) = <<>> THEN <<>>
                  ELSE DENOMS_BY_CREATOR[sender]
    IN
    /\ Running
    /\ last' = Returned("CreateDenom", sender, new_token_denom,
                        [NoArgs EXCEPT !.subdenom = subdenom, !.metadata = metadata],
                        res, <<>>)
    /\ IF res = "Ok"
       THEN /\ ADMIN' = save(ADMIN, new_token_denom, sender)
            /\ DENOMS_BY_CREATOR' =
                   save(DENOMS_BY_CREATOR, sender, Append(denoms, new_token_denom))
            /\ METADATA' = METADATA
            /\ UNCHANGED balances
       ELSE UNCHANGED registry

CreateDenom(sender, subdenom, metadata) ==
    LET new_token_denom == build_denom(sender, subdenom).denom
        res == CreateDenomResult(sender, subdenom)
        denoms == IF may_load(DENOMS_BY_CREATOR, sender) = <<>> THEN <<>>
                  ELSE DENOMS_BY_CREATOR[sender]
    IN
    /\ Running
    /\ last' = Returned("CreateDenom", sender, new_token_denom,
                        [NoArgs EXCEPT !.subdenom = subdenom, !.metadata = metadata],
                        res, <<>>)
    /\ IF res = "Ok"
       THEN /\ ADMIN' = save(ADMIN, new_token_denom, sender)
            /\ DENOMS_BY_CREATOR' =
                   save(DENOMS_BY_CREATOR, sender, Append(denoms, new_token_denom))
            /\ METADATA' = IF metadata # <<>>
                           THEN save(METADATA, new_token_denom, metadata[1])
                           ELSE METADATA
            /\ UNCHANGED balances
       ELSE UNCHANGED registry

\* The ledger's answer to a mint: a credit of a positive amount is booked;
\* what the ledger does with a coin of amount zero is the ledger's own
\* choice (it books nothing and either accepts or refuses).
LedgerAccepts(amount) == IF amount = 0 THEN BOOLEAN ELSE {TRUE}

MintTokensResult(sender, denom, accepted) ==
    LET auth == ensure_admin(sender, denom) IN
    IF auth # "Ok" THEN auth
    ELSE IF ~accepted THEN "LedgerError"
    ELSE "Ok"

\* Whether the handler reaches router.sudo with its BankSudo::Mint
MintTokensSudo(sender, denom, amount, mint_to_address) ==
    IF ensure_admin(sender, denom) = "Ok"
    THEN <<BankSudoMint(mint_to_address, amount, denom)>>
    ELSE <<>>

\* The handler, taken only while the ledger's total stays within cap.
MintTokensUpTo(cap, sender, denom, amount, mint_to_address) ==
    \E accepted \in LedgerAccepts(amount) :
        LET res == MintTokensResult(sender, denom, accepted)
            sudo == MintTokensSudo(sender, denom, amount, mint_to_address)
        IN
        /\ Running
        /\ sudo # <<>> => TotalSupply + amount <= cap
        /\ last' = Returned("MintTokens", sender, denom,
                            [NoArgs EXCEPT !.amount = amount, !.address = mint_to_address],
                            res, sudo)
        /\ balances' = IF res = "Ok"
                       THEN Credit(mint_to_address, amount, denom)
                       ELSE balances
        /\ UNCHANGED <<ADMIN, METADATA, DENOMS_BY_CREATOR>>

MintTokens(sender, denom, amount, mint_to_address) ==
    MintTokensUpTo(MaxSupply, sender, denom, amount, mint_to_address)

\* todo!(): the handler panics
BurnTokens(sender, denom, amount, burn_from_address) ==
    /\ Running
    /\ last' = Returned("BurnTokens", sender, denom,
                        [NoArgs EXCEPT !.amount = amount, !.address = burn_from_address],
                        "Panic", <<>>)
    /\ UNCHANGED registry

\* todo!(): the handler panics
ForceTransfer(sender, denom, amount, from_address, to_address) ==
    /\ Running
    /\ last' = Returned("ForceTransfer", sender, denom,
                        [NoArgs EXCEPT !.amount = amount, !.address = from_address,
                                       !.new_admin_address = to_address],
                        "Panic", <<>>)
    /\ UNCHANGED registry

\* Mutant: any sender may change the admin of an existing denom.
ChangeAdminResultAnySender(sender, denom, new_admin_address) ==
    IF may_load(ADMIN, denom) = <<>> THEN "TokenDoesntExist"
    ELSE IF ~addr_validate(new_admin_address) THEN "StdError"
    ELSE "Ok"

ChangeAdminResult(sender, denom, new_admin_address) ==
    LET auth == ensure_admin(sender, denom) IN
    IF auth # "Ok" THEN auth
    ELSE IF ~addr_validate(new_admin_address) THEN "StdError"
    ELSE "Ok"

\* Mutant: the admin entry is written before the new address is validated.
ChangeAdminSavesFirst(sender, denom, new_admin_address) ==
    LET res == ChangeAdminResult(sender, denom, new_admin_address) IN
    /\ Running
    /\ last' = Returned("ChangeAdmin", sender, denom,
                        [NoArgs EXCEPT !.new_admin_address = new_admin_address],
                        res, <<>>)
    /\ ADMIN' = IF res \in {"Ok", "StdError"}
                THEN save(ADMIN, denom, new_admin_address) ELSE ADMIN
    /\ UNCHANGED <<METADATA, DENOMS_BY_CREATOR, balances>>

\* Mutant: a handover also enters the denom in the new admin's list.
ChangeAdminIndexesNewAdmin(sender, denom, new_admin_address) ==
    LET res == ChangeAdminResult(sender, denom, new_admin_address)
        denoms == IF may_load(DENOMS_BY_CREATOR, new_admin_address) = <<>> THEN <<>>
                  ELSE DENOMS_BY_CREATOR[new_admin_address]
    IN
    /\ Running
    /\ last' = Returned("ChangeAdmin", sender, denom,
                        [NoArgs EXCEPT !.new_admin_address = new_admin_address],
                        res, <<>>)
    /\ ADMIN' = IF res = "Ok" THEN save(ADMIN, denom, new_admin_address) ELSE ADMIN
    /\ DENOMS_BY_CREATOR' =
           IF res = "Ok"
           THEN save(DENOMS_BY_CREATOR, new_admin_address, Append(denoms, denom))
           ELSE DENOMS_BY_CREATOR
    /\ UNCHANGED <<METADATA, balances>>

\* Mutant: a handover takes the denom out of the list it is in and puts it
\* in the new admin's.
ChangeAdminMovesDenom(sender, denom, new_admin_address) ==
    LET res == ChangeAdminResult(sender, denom, new_admin_address)
        other(x) == x # denom
        moved == [c \in DOMAIN DENOMS_BY_CREATOR \cup {new_admin_address} |->
                     LET kept == IF c \in DOMAIN DENOMS_BY_CREATOR
                                 THEN SelectSeq(DENOMS_BY_CREATOR[c], other)
                                 ELSE <<>>
                     IN IF c = new_admin_address THEN Append(kept, denom) ELSE kept]
    IN
    /\ Running
    /\ last' = Returned("ChangeAdmin", sender, denom,
                        [NoArgs EXCEPT !.new_admin_address = new_admin_address],
                        res, <<>>)
    /\ ADMIN' = IF res = "Ok" THEN save(ADMIN, denom, new_admin_address) ELSE ADMIN
    /\ DENOMS_BY_CREATOR' = IF res = "Ok" THEN moved ELSE DENOMS_BY_CREATOR
    /\ UNCHANGED <<METADATA, balances>>

ChangeAdmin(sender, denom, new_admin_address) ==
    LET res == ChangeAdminResult(sender, denom, new_admin_address) IN
    /\ Running
    /\ last' = Returned("ChangeAdmin", sender, denom,
                        [NoArgs EXCEPT !.new_admin_address = new_admin_address],
                        res, <<>>)
    /\ ADMIN' = IF res = "Ok" THEN save(ADMIN, denom, new_admin_address) ELSE ADMIN
    /\ UNCHANGED <<METADATA, DENOMS_BY_CREATOR, balances>>

\* Mutant: a denom without an admin entry is open to every sender.
SetMetadataResultUncreated(sender, denom) ==
    LET admin == may_load(ADMIN, denom) IN
    IF admin = <<>> THEN "Ok"
    ELSE IF admin[1] # sender THEN "NotTokenAdmin"
    ELSE "Ok"

SetMetadataResult(sender, denom) == ensure_admin(sender, denom)

\* Mutant: a field the new record leaves empty keeps the stored value.
SetMetadataMerges(sender, denom, metadata) ==
    LET res == SetMetadataResult(sender, denom)
        old == may_load(METADATA, denom)
        merged == IF old = <<>> THEN metadata
                  ELSE [f \in DOMAIN metadata |->
                            IF metadata[f] = <<>> THEN old[1][f] ELSE metadata[f]]
    IN
    /\ Running
    /\ last' = Returned("SetMetadata", sender, denom,
                        [NoArgs EXCEPT !.metadata = <<metadata>>], res, <<>>)
    /\ METADATA' = IF res = "Ok" THEN save(METADATA, denom, merged) ELSE METADATA
    /\ UNCHANGED <<ADMIN, DENOMS_BY_CREATOR, balances>>

SetMetadata(sender, denom, metadata) ==
    LET res == SetMetadataResult(sender, denom) IN
    /\ Running
    /\ last' = Returned("SetMetadata", sender, denom,
                        [NoArgs EXCEPT !.metadata = <<metadata>>], res, <<>>)
    /\ METADATA' = IF res = "Ok" THEN save(METADATA, denom, metadata) ELSE METADATA
    /\ UNCHANGED <<ADMIN, DENOMS_BY_CREATOR, balances>>

Next ==
    \/ \E s \in Senders, sd \in Subdenoms, md \in {<<>>} \cup {<<m>> : m \in Metadatas} :
           CreateDenom(s, sd, md)
    \/ \E s \in Senders, d \in Denoms, a \in Amounts, r \in Recipients :
           MintTokens(s, d, a, r)
    \/ \E s \in Senders, d \in Denoms, a \in Amounts, r \in Recipients :
           BurnTokens(s, d, a, r)
    \/ \E s \in Senders, d \in Denoms, a \in Amounts, f \in Recipients, t \in Recipients :
           ForceTransfer(s, d, a, f, t)
    \/ \E s \in Senders, d \in Denoms, n \in NewAdmins :
           ChangeAdmin(s, d, n)
    \/ \E s \in Senders, d \in Denoms, m \in Metadatas :
           SetMetadata(s, d, m)

Spec == Init /\ [][Next]_vars

----------------------------------------------------------------------------
(* TokenFactoryModule::query *)

\* TokenQuery::Admin: ADMIN.load fails with the store's not-found error
QueryAdmin(denom) ==
    IF denom \in DOMAIN ADMIN
    THEN [res |-> "Ok", admin |-> ADMIN[denom]]
    ELSE [res |-> "NotFound", admin |-> <<>>]

\* TokenQuery::Metadata
QueryMetadata(denom) == [res |-> "Ok", metadata |-> may_load(METADATA, denom)]

\* Mutant: the creator address is handed to build_denom unvalidated.
QueryFullDenomUnvalidated(creator_addr, subdenom) ==
    LET built == build_denom(creator_addr, subdenom) IN
    [res |-> built.err, denom |-> built.denom]

\* TokenQuery::FullDenom: api.addr_validate(&creator_addr)?, then build_denom
QueryFullDenom(creator_addr, subdenom) ==
    IF ~addr_validate(creator_addr)
    THEN [res |-> "InvalidAddress", denom |-> <<>>]
    ELSE LET built == build_denom(creator_addr, subdenom) IN
         [res |-> built.err, denom |-> built.denom]

\* TokenQuery::DenomsByCreator: api.addr_validate(&creator)?, then
\* may_load(..).unwrap_or_default()
QueryDenomsByCreator(creator) ==
    IF ~addr_validate(creator)
    THEN [res |-> "InvalidAddress", denoms |-> <<>>]
    ELSE [res |-> "Ok",
          denoms |-> IF may_load(DENOMS_BY_CREATOR, creator) = <<>> THEN <<>>
                     ELSE DENOMS_BY_CREATOR[creator]]

\* TokenQuery::Params {} => todo!()
QueryParams == [res |-> "Panic"]

\* What query returned for the last request
Answered(op, creator, subdenom, denom, res, value) ==
    [op |-> op, creator |-> creator, subdenom |-> subdenom, denom |-> denom,
     res |-> res, value |-> value]

AskFullDenom(creator_addr, subdenom) ==
    LET answer == QueryFullDenom(creator_addr, subdenom) IN
    /\ Running
    /\ last' = Answered("QueryFullDenom", creator_addr, subdenom, <<>>,
                        answer.res, answer.denom)
    /\ UNCHANGED registry

AskMetadata(denom) ==
    LET answer == QueryMetadata(denom) IN
    /\ Running
    /\ last' = Answered("QueryMetadata", <<>>, <<>>, denom, answer.res, answer.metadata)
    /\ UNCHANGED registry

AskAdmin(denom) ==
    LET answer == QueryAdmin(denom) IN
    /\ Running
    /\ last' = Answered("QueryAdmin", <<>>, <<>>, denom, answer.res, answer.admin)
    /\ UNCHANGED registry

AskDenomsByCreator(creator) ==
    LET answer == QueryDenomsByCreator(creator) IN
    /\ Running
    /\ last' = Answered("QueryDenomsByCreator", creator, <<>>, <<>>,
                        answer.res, answer.denoms)
    /\ UNCHANGED registry

AskParams ==
    /\ Running
    /\ last' = Answered("QueryParams", <<>>, <<>>, <<>>, QueryParams.res, <<>>)
    /\ UNCHANGED registry

----------------------------------------------------------------------------
(* The registry with its queries: one creator with two valid subdenoms, so  *)
(* that a creator's list gets a second element, and every query as a step. *)

\* The sender that creates denoms here.
Creators == {govner}

\* Subdenoms offered here: the usual one, the empty one, one that is too long.
QuerySubdenoms == Subdenoms \cup {<<>>}

\* denom arguments offered here
QueryDenoms == {FullDenom(c, sd) : c \in Creators, sd \in {fundz, <<>>}} \cup {fundz}

\* creator arguments of the queries: identities, the empty string, a short
\* non-address.
CreatorAddrs == Senders \cup {<<>>, <<"n", "o">>}

NextQuery ==
    \/ \E s \in Creators, sd \in QuerySubdenoms, md \in {<<>>, <<MetaFundz>>} :
           CreateDenom(s, sd, md)
    \/ \E s \in Senders, d \in QueryDenoms, r \in Recipients :
           MintTokens(s, d, 1, r)
    \/ \E s \in Senders, d \in QueryDenoms, n \in Senders :
           ChangeAdmin(s, d, n)
    \/ \E s \in Senders, d \in QueryDenoms :
           SetMetadata(s, d, MetaOther)
    \/ \E c \in CreatorAddrs, sd \in QuerySubdenoms :
           AskFullDenom(c, sd)
    \/ \E d \in QueryDenoms :
           AskMetadata(d)
    \/ \E d \in QueryDenoms :
           AskAdmin(d)
    \/ \E c \in CreatorAddrs :
           AskDenomsByCreator(c)
    \/ AskParams

SpecQuery == Init /\ [][NextQuery]_vars

----------------------------------------------------------------------------
(* build_denom on its own, with creators and subdenoms at its limits *)

BuildCreators ==
    {Rep("c", n) : n \in {0, 1, 6, MaxCreatorLen - 1, MaxCreatorLen,
                          MaxCreatorLen + 1, MaxDenomLen}}
        \cup {<<"/">>, <<"a", "/", "b">>, Rep("c", MaxCreatorLen - 1) \o <<"/">>}

BuildSubdenoms ==
    {Rep("s", n) : n \in {0, 1, 5, MaxSubdenomLen - 1, MaxSubdenomLen,
                          MaxSubdenomLen + 1, MaxDenomLen}}
        \cup {<<"x", "/", "y">>}

\* A call of build_denom: its arguments, then what it returned.
Called(op, creator, subdenom, res, denom) ==
    [op |-> op, creator |-> creator, subdenom |-> subdenom, res |-> res, denom |-> denom]

InitBuild ==
    /\ ADMIN = <<>>
    /\ METADATA = <<>>
    /\ DENOMS_BY_CREATOR = <<>>
    /\ balances = <<>>
    /\ \E c \in BuildCreators, sd \in BuildSubdenoms :
           last = Called("Input", c, sd, "Ok", <<>>)

BuildDenom ==
    LET built == build_denom(last.creator, last.subdenom) IN
    /\ last.op = "Input"
    /\ last' = Called("build_denom", last.creator, last.subdenom, built.err, built.denom)
    /\ UNCHANGED registry

NextBuild == BuildDenom

SpecBuild == InitBuild /\ [][NextBuild]_vars

----------------------------------------------------------------------------
(* The registry with names at the limits of build_denom: the messages that  *)
(* write ADMIN, sent by creators of 75 and 76 bytes and by one with a '/'. *)

LimitSenders ==
    {govner, Rep("c", MaxCreatorLen), Rep("c", MaxCreatorLen + 1), <<"a", "/", "b">>}

LimitSubdenoms == {<<>>, Rep("s", MaxSubdenomLen), Rep("s", MaxSubdenomLen + 1)}

\* The senders whose names validate: the admins here.
LimitAdmins == {govner, Rep("c", MaxCreatorLen)}

\* denom arguments offered to ChangeAdmin here: the shortest and the longest
\* name that validate, and one that is never created.
LimitDenoms ==
    {FullDenom(govner, <<>>),
     FullDenom(Rep("c", MaxCreatorLen), Rep("s", MaxSubdenomLen)),
     FullDenom(Rep("c", MaxCreatorLen + 1), <<>>)}

NextLimits ==
    \/ \E s \in LimitSenders, sd \in LimitSubdenoms :
           CreateDenom(s, sd, <<>>)
    \/ \E s \in LimitAdmins, d \in LimitDenoms, n \in LimitAdmins :
           ChangeAdmin(s, d, n)

SpecLimits == Init /\ [][NextLimits]_vars

----------------------------------------------------------------------------
(* The registry with names that come close to each other: a sender whose    *)
(* name holds a '/', and subdenoms that hold one, so that two pairs spell  *)
(* the same string.                                                        *)

\* "govner/x": a sender whose name spells govner's and the start of a subdenom
govner_x == govner \o <<"/", "x">>

\* "x/fundz"
x_fundz == <<"x", "/">> \o fundz

CloseSenders == {govner, govner_x, townies}

CloseSubdenoms == {fundz, x_fundz, <<>>}

NextClose ==
    \E s \in CloseSenders, sd \in CloseSubdenoms : CreateDenom(s, sd, <<>>)

SpecClose == Init /\ [][NextClose]_vars

----------------------------------------------------------------------------
(* copied_from_cw_utils: the protobuf string parser of packages/bindings.  *)
(* A buffer is a sequence of bytes, each in 0..255.  A String is the        *)
(* sequence of its bytes, as in Rust.                                      *)

WIRE_TYPE_LENGTH_DELIMITED == 2

VARINT_MAX_BYTES == 9

Drop(data, n) == SubSeq(data, n + 1, Len(data))

RECURSIVE Pow2(_)
Pow2(n) == IF n = 0 THEN 1 ELSE 2 * Pow2(n - 1)

\* A u64 is kept as three limbs <<l0, l1, l2>> with value
\* l0 + l1 * 2^28 + l2 * 2^56, l0 and l1 below 2^28 and l2 below 2^8.
LimbBits == 28

Limb == Pow2(LimbBits)

U64(n) == <<n, 0, 0>>

\* (a as u64) << n for a byte a and n < 64; bits pushed past bit 63 are lost
ShiftLeft(a, n) ==
    LET k == n \div LimbBits
        s == n % LimbBits
        cut == Pow2(LimbBits - s)
        low == (a % cut) * Pow2(s)
        carry == a \div cut
        limb(j) == IF j = k THEN low ELSE IF j = k + 1 THEN carry ELSE 0
    IN <<limb(0), limb(1), limb(2) % 256>>

\* u64 addition, wrapping at 2^64
Add(x, y) ==
    LET s0 == x[1] + y[1]
        s1 == x[2] + y[2] + (s0 \div Limb)
        s2 == x[3] + y[3] + (s1 \div Limb)
    IN <<s0 % Limb, s1 % Limb, s2 % 256>>

\* n < len for a buffer length n and a u64 len
Less(n, len) == len[2] # 0 \/ len[3] # 0 \/ n < len[1]

\* Mutant: the byte that ends the varint is not added to the length.
RECURSIVE varint_loop_drops_last(_, _, _)
varint_loop_drops_last(data, i, len) ==
    IF i < VARINT_MAX_BYTES
    THEN IF Len(data) = i
         THEN [res |-> "VarintTooShort", len |-> U64(0), i |-> i]
         ELSE IF data[i + 1] \div 128 = 0
              THEN [res |-> "Ok", len |-> len, i |-> i]
              ELSE varint_loop_drops_last(data, i + 1,
                                          Add(len, ShiftLeft(data[i + 1] % 128, i * 7)))
    ELSE [res |-> "Ok", len |-> len, i |-> i]

\* Mutant: the loop reads a tenth byte.
RECURSIVE varint_loop_ten_bytes(_, _, _)
varint_loop_ten_bytes(data, i, len) ==
    IF i < VARINT_MAX_BYTES + 1
    THEN IF Len(data) = i
         THEN [res |-> "VarintTooShort", len |-> U64(0), i |-> i]
         ELSE LET added == Add(len, ShiftLeft(data[i + 1] % 128, i * 7)) IN
              IF data[i + 1] \div 128 = 0
              THEN [res |-> "Ok", len |-> added, i |-> i]
              ELSE varint_loop_ten_bytes(data, i + 1, added)
    ELSE [res |-> "Ok", len |-> len, i |-> i]

\* The while loop of parse_protobuf_varint, from index i with len so far:
\* how it ends, and the values of len and i at that point.
RECURSIVE varint_loop(_, _, _)
varint_loop(data, i, len) ==
    IF i < VARINT_MAX_BYTES
    THEN IF Len(data) = i
         THEN [res |-> "VarintTooShort", len |-> U64(0), i |-> i]
         ELSE LET added == Add(len, ShiftLeft(data[i + 1] % 128, i * 7)) IN
              IF data[i + 1] \div 128 = 0
              THEN [res |-> "Ok", len |-> added, i |-> i]
              ELSE varint_loop(data, i + 1, added)
    ELSE [res |-> "Ok", len |-> len, i |-> i]

\* What parse_protobuf_varint returned.  Ok(len as usize), with usize as wide
\* as u64: len is the part of the length below 2^28, which holds all of it
\* when high is <<0, 0>>.
Measured(res, len, rest) ==
    [res |-> res, len |-> len[1], high |-> <<len[2], len[3]>>, rest |-> rest]

\* Mutant: a varint of more than one byte is refused.
parse_protobuf_varint_one_byte(data) ==
    LET loop == varint_loop(data, 0, U64(0)) IN
    IF loop.res # "Ok" THEN Measured(loop.res, U64(0), data)
    ELSE IF loop.i >= 1 THEN Measured("VarintTooLong", U64(0), data)
    ELSE Measured("Ok", loop.len, Drop(data, loop.i + 1))

\* Mutant: the byte that ends the varint is left in data.
parse_protobuf_varint_keeps_last(data) ==
    LET loop == varint_loop(data, 0, U64(0)) IN
    IF loop.res # "Ok" THEN Measured(loop.res, U64(0), data)
    ELSE IF loop.i = VARINT_MAX_BYTES THEN Measured("VarintTooLong", U64(0), data)
    ELSE Measured("Ok", loop.len, Drop(data, loop.i))

\* Returns the length and what is left of data behind the varint.
parse_protobuf_varint(data) ==
    LET loop == varint_loop(data, 0, U64(0)) IN
    IF loop.res # "Ok" THEN Measured(loop.res, U64(0), data)
    ELSE IF loop.i = VARINT_MAX_BYTES THEN Measured("VarintTooLong", U64(0), data)
    ELSE Measured("Ok", loop.len, Drop(data, loop.i + 1))

\* What a parser returned: its result, the field's bytes, and data as the
\* call leaves it.
Parsed(res, value, rest) == [res |-> res, value |-> value, rest |-> rest]

\* Mutant: the wire type is read from the low three bits of the tag.
parse_protobuf_length_prefixed_3bits(data, field_number) ==
    IF data = <<>> THEN Parsed("Ok", <<>>, <<>>)
    ELSE LET rest_1 == Drop(data, 1)
             wire_type == data[1] % 8
             field == data[1] \div 8
         IN
         IF field # field_number THEN Parsed("FieldMismatch", <<>>, <<data[1]>>)
         ELSE IF wire_type # WIRE_TYPE_LENGTH_DELIMITED
         THEN Parsed("WireTypeMismatch", <<>>, <<data[1]>>)
         ELSE LET varint == parse_protobuf_varint(rest_1) IN
              IF varint.res # "Ok" THEN Parsed(varint.res, <<>>, <<data[1]>>)
              ELSE IF Less(Len(varint.rest), <<varint.len>> \o varint.high)
              THEN Parsed("PayloadTooShort", <<>>, <<data[1]>>)
              ELSE Parsed("Ok", SubSeq(varint.rest, 1, varint.len),
                          Drop(varint.rest, varint.len))

\* Mutant: a payload that fills the buffer to its end is refused.
parse_protobuf_length_prefixed_fits_less(data, field_number) ==
    IF data = <<>> THEN Parsed("Ok", <<>>, <<>>)
    ELSE LET rest_1 == Drop(data, 1)
             wire_type == data[1] % 4
             field == data[1] \div 8
         IN
         IF field # field_number THEN Parsed("FieldMismatch", <<>>, <<data[1]>>)
         ELSE IF wire_type # WIRE_TYPE_LENGTH_DELIMITED
         THEN Parsed("WireTypeMismatch", <<>>, <<data[1]>>)
         ELSE LET varint == parse_protobuf_varint(rest_1) IN
              IF varint.res # "Ok" THEN Parsed(varint.res, <<>>, <<data[1]>>)
              ELSE IF varint.high # <<0, 0>> \/ Len(varint.rest) <= varint.len
              THEN Parsed("PayloadTooShort", <<>>, <<data[1]>>)
              ELSE Parsed("Ok", SubSeq(varint.rest, 1, varint.len),
                          Drop(varint.rest, varint.len))

\* Mutant: the empty buffer is refused like a wrong tag.
parse_protobuf_length_prefixed_no_empty(data, field_number) ==
    IF data = <<>> THEN Parsed("FieldMismatch", <<>>, <<>>)
    ELSE LET rest_1 == Drop(data, 1)
             wire_type == data[1] % 4
             field == data[1] \div 8
         IN
         IF field # field_number THEN Parsed("FieldMismatch", <<>>, <<data[1]>>)
         ELSE IF wire_type # WIRE_TYPE_LENGTH_DELIMITED
         THEN Parsed("WireTypeMismatch", <<>>, <<data[1]>>)
         ELSE LET varint == parse_protobuf_varint(rest_1) IN
              IF varint.res # "Ok" THEN Parsed(varint.res, <<>>, <<data[1]>>)
              ELSE IF Less(Len(varint.rest), <<varint.len>> \o varint.high)
              THEN Parsed("PayloadTooShort", <<>>, <<data[1]>>)
              ELSE Parsed("Ok", SubSeq(varint.rest, 1, varint.len),
                          Drop(varint.rest, varint.len))

\* Mutant: everything behind the varint is returned as the field.
parse_protobuf_length_prefixed_takes_all(data, field_number) ==
    IF data = <<>> THEN Parsed("Ok", <<>>, <<>>)
    ELSE LET rest_1 == Drop(data, 1)
             wire_type == data[1] % 4
             field == data[1] \div 8
         IN
         IF field # field_number THEN Parsed("FieldMismatch", <<>>, <<data[1]>>)
         ELSE IF wire_type # WIRE_TYPE_LENGTH_DELIMITED
         THEN Parsed("WireTypeMismatch", <<>>, <<data[1]>>)
         ELSE LET varint == parse_protobuf_varint(rest_1) IN
              IF varint.res # "Ok" THEN Parsed(varint.res, <<>>, <<data[1]>>)
              ELSE IF Less(Len(varint.rest), <<varint.len>> \o varint.high)
              THEN Parsed("PayloadTooShort", <<>>, <<data[1]>>)
              ELSE Parsed("Ok", varint.rest, <<>>)

parse_protobuf_length_prefixed(data, field_number) ==
    IF data = <<>> THEN Parsed("Ok", <<>>, <<>>)
    ELSE LET rest_1 == Drop(data, 1)
             wire_type == data[1] % 4
             field == data[1] \div 8
         IN
         IF field # field_number THEN Parsed("FieldMismatch", <<>>, <<data[1]>>)
         ELSE IF wire_type # WIRE_TYPE_LENGTH_DELIMITED
         THEN Parsed("WireTypeMismatch", <<>>, <<data[1]>>)
         ELSE LET varint == parse_protobuf_varint(rest_1) IN
              IF varint.res # "Ok" THEN Parsed(varint.res, <<>>, <<data[1]>>)
              ELSE IF Less(Len(varint.rest), <<varint.len>> \o varint.high)
              THEN Parsed("PayloadTooShort", <<>>, <<data[1]>>)
              ELSE Parsed("Ok", SubSeq(varint.rest, 1, varint.len),
                          Drop(varint.rest, varint.len))

\* String::from_utf8: whether the bytes are well-formed UTF-8.  A run of
\* ASCII bytes is passed over in one step; b[n] is the first byte of the
\* next character of more than one byte.
RECURSIVE from_utf8(_)
from_utf8(b) ==
    LET cont(x) == x \in 128..191
        wide == {i \in 1..Len(b) : b[i] >= 128}
    IN
    IF wide = {} THEN TRUE
    ELSE LET n == CHOOSE i \in wide : \A k \in wide : i <= k
             left == Len(b) - n + 1
         IN
         IF b[n] \in 194..223
         THEN left >= 2 /\ cont(b[n + 1]) /\ from_utf8(Drop(b, n + 1))
         ELSE IF b[n] \in 224..239
         THEN /\ left >= 3
              /\ b[n + 1] \in (IF b[n] = 224 THEN 160..191
                                ELSE IF b[n] = 237 THEN 128..159 ELSE 128..191)
              /\ cont(b[n + 2])
              /\ from_utf8(Drop(b, n + 2))
         ELSE IF b[n] \in 240..244
         THEN /\ left >= 4
              /\ b[n + 1] \in (IF b[n] = 240 THEN 144..191
                                ELSE IF b[n] = 244 THEN 128..143 ELSE 128..191)
              /\ cont(b[n + 2]) /\ cont(b[n + 3])
              /\ from_utf8(Drop(b, n + 3))
         ELSE FALSE

parse_protobuf_string(data, field_number) ==
    LET str_field == parse_protobuf_length_prefixed(data, field_number) IN
    IF str_field.res # "Ok" THEN str_field
    ELSE IF ~from_utf8(str_field.value) THEN Parsed("InvalidUtf8", <<>>, str_field.rest)
    ELSE str_field

\* CreateDenomReponse::from_reply_data
from_reply_data(data) == parse_protobuf_string(data, 1)

----------------------------------------------------------------------------
(* The parser on its own: every tag byte against a few field numbers, and  *)
(* varints of up to MaxContBytes continuation bytes, bare and behind the    *)
(* tag of field 1.                                                         *)

Lowercase ==
    <<"a", "b", "c", "d", "e", "f", "g", "h", "i", "j", "k", "l", "m",
      "n", "o", "p", "q", "r", "s", "t", "u", "v", "w", "x", "y", "z">>

\* The bytes of a String of lowercase letters and '/'.
as_bytes(str) ==
    [i \in 1..Len(str) |->
        IF str[i] = "/" THEN 47
        ELSE 96 + (CHOOSE n \in 1..26 : Lowercase[n] = str[i])]

\* Most continuation bytes (high bit set) a buffer starts its varint with.
MaxContBytes == 10

FieldNumbers == {0, 1, 2, 31, 32}

Payloads == {<<>>, <<97>>, <<97, 98>>}

\* Continuation bytes offered at index pos of a varint; from index 4 on their
\* low seven bits are zero, which keeps the length small.
ContBytes(pos) ==
    IF pos = 0 THEN {128, 129, 255} ELSE IF pos <= 3 THEN {128, 255} ELSE {128}

\* Bytes without the high bit offered at index pos of a varint.
EndBytes(pos) ==
    IF pos <= 3 THEN {0, 1, 127} ELSE IF pos = 4 THEN {0, 1, 7} ELSE {0}

RECURSIVE Conts(_)
Conts(k) ==
    IF k = 0 THEN {<<>>}
    ELSE {c \o <<b>> : c \in Conts(k - 1), b \in ContBytes(k - 1)}

\* Varints that are cut off: k continuation bytes and nothing behind them.
CutVarints == UNION {Conts(k) : k \in 0..MaxContBytes}

\* Varints that end: k continuation bytes and one byte without the high bit.
EndedVarints ==
    UNION {{c \o <<e>> : c \in Conts(k), e \in EndBytes(k)} : k \in 0..MaxContBytes}

TagBuffers == {<<t>> \o tail : t \in 0..255, tail \in {<<>>, <<1, 97>>}}

VarintBuffers == CutVarints \cup {v \o p : v \in EndedVarints, p \in Payloads}

abc_xyz == <<"f", "a", "c", "t", "o", "r", "y", "/", "a", "b", "c", "/", "x", "y", "z">>

\* Records of field 1: a name under its length and under a length one too
\* large, a length of 50 before 10 bytes, the empty payload, and payloads
\* that are and are not UTF-8.
RecordBuffers ==
    {<<10, Len(abc_xyz)>> \o as_bytes(abc_xyz),
     <<10, Len(abc_xyz) + 1>> \o as_bytes(abc_xyz),
     <<10, 50>> \o as_bytes(Rep("a", 10)),
     <<10, 0>>,
     <<10, 2, 195, 169>>,
     <<10, 2, 195, 40>>,
     <<10, 1, 255>>}

\* Bytes put behind a record.
Trailers == {<<>>, <<0>>, <<255>>, <<10, 1, 97>>, <<128, 128>>}

DecodeInputs ==
    {[data |-> b, field_number |-> f] : b \in TagBuffers, f \in FieldNumbers}
        \cup {[data |-> b, field_number |-> 1] : b \in VarintBuffers}
        \cup {[data |-> <<10>> \o b, field_number |-> 1] : b \in VarintBuffers}
        \cup {[data |-> <<>>, field_number |-> f] : f \in FieldNumbers}
        \cup {[data |-> b \o t, field_number |-> 1] : b \in RecordBuffers, t \in Trailers}

\* A call of the parser: its arguments, then what it returned.
Decoded(op, data, field_number, res, len, value, rest) ==
    [op |-> op, data |-> data, field_number |-> field_number,
     res |-> res, len |-> len[1], high |-> <<len[2], len[3]>>,
     value |-> value, rest |-> rest]

InitDecode ==
    /\ ADMIN = <<>>
    /\ METADATA = <<>>
    /\ DENOMS_BY_CREATOR = <<>>
    /\ balances = <<>>
    /\ \E in \in DecodeInputs :
           last = Decoded("Input", in.data, in.field_number, "Ok", U64(0), <<>>, <<>>)

ParseString ==
    LET parsed == parse_protobuf_string(last.data, last.field_number) IN
    /\ last.op = "Input"
    /\ last' = Decoded("parse_protobuf_string", last.data, last.field_number,
                       parsed.res, U64(0), parsed.value, parsed.rest)
    /\ UNCHANGED registry

ParseVarint ==
    LET parsed == parse_protobuf_varint(last.data) IN
    /\ last.op = "Input"
    /\ last' = Decoded("parse_protobuf_varint", last.data, last.field_number,
                       parsed.res, <<parsed.len>> \o parsed.high, <<>>, parsed.rest)
    /\ UNCHANGED registry

NextDecode ==
    \/ ParseString
    \/ ParseVarint

SpecDecode == InitDecode /\ [][NextDecode]_vars

----------------------------------------------------------------------------
(* The parser on lengths that need the width of u64: varints whose low     *)
(* seven bits are all set, of up to MaxWideBytes bytes, and powers of 128. *)

\* Most bytes of a varint offered here.
MaxWideBytes == 11

WidePayloads == {<<>>, <<97>>}

WideVarints ==
    {Rep(255, k) : k \in 0..MaxWideBytes}
        \cup {Rep(255, k) \o <<127>> \o p : k \in 0..(MaxWideBytes - 1), p \in WidePayloads}
        \cup {Rep(128, k) \o <<1>> \o p : k \in 0..(MaxWideBytes - 1), p \in WidePayloads}
        \cup {Rep(128, VARINT_MAX_BYTES - 1) \o <<e>> : e \in {64, 127, 128, 255}}
        \cup {<<129>> \o Rep(128, 3) \o <<1>> \o p : p \in WidePayloads}

WideInputs ==
    {[data |-> b, field_number |-> 1] : b \in WideVarints}
        \cup {[data |-> <<10>> \o b, field_number |-> 1] : b \in WideVarints}

InitWide ==
    /\ ADMIN = <<>>
    /\ METADATA = <<>>
    /\ DENOMS_BY_CREATOR = <<>>
    /\ balances = <<>>
    /\ \E in \in WideInputs :
           last = Decoded("Input", in.data, in.field_number, "Ok", U64(0), <<>>, <<>>)

SpecWide == InitWide /\ [][NextDecode]_vars

----------------------------------------------------------------------------
(* The data of CreateDenom's response: CreateDenomResponse::encode, one    *)
(* length-delimited field with number 1 that holds the new denom.          *)

RECURSIVE encode_varint(_)
encode_varint(n) ==
    IF n < 128 THEN <<n>> ELSE <<128 + (n % 128)>> \o encode_varint(n \div 128)

encode(new_token_denom) ==
    LET bytes == as_bytes(new_token_denom) IN
    <<8 * 1 + WIRE_TYPE_LENGTH_DELIMITED>> \o encode_varint(Len(bytes)) \o bytes

\* The data of the response CreateDenom returns: Some(encoded) on success.
CreateDenomData(sender, subdenom) ==
    IF CreateDenomResult(sender, subdenom) = "Ok"
    THEN <<encode(build_denom(sender, subdenom).denom)>>
    ELSE <<>>

----------------------------------------------------------------------------
(* The messages and queries of the test mint_token, in any order: govner    *)
(* and townies create fundz with its metadata, mint 1234567 to townies and  *)
(* ask for names, metadata and admins.                                     *)

\* Uint128::new(1234567)
TraceAmount == 1234567

\* Most mints of TraceAmount the ledger takes here.
TraceMints == 2

\* The denom the test gets from the FullDenom query.
factory_govner_fundz ==
    <<"f", "a", "c", "t", "o", "r", "y", "/", "g", "o", "v", "n", "e", "r", "/",
      "f", "u", "n", "d", "z">>

NextTrace ==
    \/ \E s \in Senders :
           CreateDenom(s, fundz, <<MetaFundz>>)
    \/ \E s \in Senders, d \in Denoms :
           MintTokensUpTo(TraceMints * TraceAmount, s, d, TraceAmount, townies)
    \/ \E c \in Senders :
           AskFullDenom(c, fundz)
    \/ \E d \in Denoms :
           AskMetadata(d)
    \/ \E d \in Denoms :
           AskAdmin(d)

SpecTrace == Init /\ [][NextTrace]_vars

----------------------------------------------------------------------------
(* contracts/tokenfactory: the demo contract's execute handlers.  A handler *)
(* is a function of its message; its querier is the chain module above, and *)
(* its Api is the mock Api.                                                *)

Uppercase ==
    <<"A", "B", "C", "D", "E", "F", "G", "H", "I", "J", "K", "L", "M",
      "N", "O", "P", "Q", "R", "S", "T", "U", "V", "W", "X", "Y", "Z">>

to_ascii_lowercase(c) ==
    IF \E n \in 1..26 : Uppercase[n] = c
    THEN Lowercase[CHOOSE n \in 1..26 : Uppercase[n] = c]
    ELSE c

eq_ignore_ascii_case(a, b) ==
    /\ Len(a) = Len(b)
    /\ \A i \in 1..Len(a) : to_ascii_lowercase(a[i]) = to_ascii_lowercase(b[i])

\* str::split(c).collect(): the pieces between the occurrences of c, one
\* more than there are occurrences.
split(str, c) ==
    LET at == {i \in 1..Len(str) : str[i] = c}
        n == Cardinality(at)
        cut(k) == IF k = 0 THEN 0
                  ELSE IF k = n + 1 THEN Len(str) + 1
                  ELSE CHOOSE i \in at : Cardinality({j \in at : j <= i}) = k
    IN [k \in 1..(n + 1) |-> SubSeq(str, cut(k - 1) + 1, cut(k) - 1)]

\* TokenFactoryError::InvalidDenom { denom, message }, or Ok(())
DenomChecked(res, denom, message) == [res |-> res, denom |-> denom, message |-> message]

\* Mutant: the prefix is compared before the parts are counted.
validate_denom_prefix_first(denom) ==
    LET tokenfactory_denom_parts == split(denom, "/")
        prefix == tokenfactory_denom_parts[1]
    IN
    IF ~eq_ignore_ascii_case(prefix, <<"f", "a", "c", "t", "o", "r", "y">>)
    THEN DenomChecked("InvalidDenom", denom, <<"prefix must be 'factory', was ", prefix>>)
    ELSE IF Len(tokenfactory_denom_parts) # 3
    THEN DenomChecked("InvalidDenom", denom,
                      <<"denom must have 3 parts separated by /, had ",
                        Len(tokenfactory_denom_parts)>>)
    ELSE LET response == QueryFullDenom(tokenfactory_denom_parts[2],
                                        tokenfactory_denom_parts[3]) IN
         IF response.res # "Ok"
         THEN DenomChecked("InvalidDenom", denom, <<response.res>>)
         ELSE DenomChecked("Ok", <<>>, <<>>)

validate_denom(denom) ==
    LET tokenfactory_denom_parts == split(denom, "/")
        prefix == tokenfactory_denom_parts[1]
    IN
    IF Len(tokenfactory_denom_parts) # 3
    THEN DenomChecked("InvalidDenom", denom,
                      <<"denom must have 3 parts separated by /, had ",
                        Len(tokenfactory_denom_parts)>>)
    ELSE IF ~eq_ignore_ascii_case(prefix, <<"f", "a", "c", "t", "o", "r", "y">>)
    THEN DenomChecked("InvalidDenom", denom, <<"prefix must be 'factory', was ", prefix>>)
    ELSE LET response == QueryFullDenom(tokenfactory_denom_parts[2],
                                        tokenfactory_denom_parts[3]) IN
         IF response.res # "Ok"
         THEN DenomChecked("InvalidDenom", denom, <<response.res>>)
         ELSE DenomChecked("Ok", <<>>, <<>>)

\* Err(e): no Response, so no message, attribute or data
Failed(res, err) ==
    [res |-> res, err |-> err, messages |-> <<>>, attributes |-> <<>>, data |-> <<>>]

\* Ok(Response::new().add_attribute("method", method).add_message(msg))
Responded(method, msg) ==
    [res |-> "Ok", err |-> <<>>, messages |-> <<msg>>,
     attributes |-> <<<<"method", method>>>>, data |-> <<>>]

\* TokenMsg::mint_contract_tokens
mint_contract_tokens(denom, amount, mint_to_address) ==
    [type |-> "MintTokens", denom |-> denom, amount |-> amount,
     mint_to_address |-> mint_to_address]

\* Mutant: the address handed in is forwarded.
burn_contract_tokens_forwards(denom, amount, burn_from_address) ==
    [type |-> "BurnTokens", denom |-> denom, amount |-> amount,
     burn_from_address |-> burn_from_address]

\* TokenMsg::burn_contract_tokens: "burn_from_address is currently disabled"
burn_contract_tokens(denom, amount, burn_from_address) ==
    [type |-> "BurnTokens", denom |-> denom, amount |-> amount,
     burn_from_address |-> <<>>]

\* TokenMsg::force_transfer_tokens
force_transfer_tokens(denom, amount, from_address, to_address) ==
    [type |-> "ForceTransfer", denom |-> denom, amount |-> amount,
     from_address |-> from_address, to_address |-> to_address]

\* Mutant: the empty subdenom is passed on like any other.
create_denom_accepts_empty(subdenom) ==
    Responded("create_denom",
              [type |-> "CreateDenom", subdenom |-> subdenom, metadata |-> <<>>])

create_denom(subdenom) ==
    IF subdenom = <<>>
    THEN Failed("InvalidSubdenom", [subdenom |-> subdenom])
    ELSE Responded("create_denom",
                   [type |-> "CreateDenom", subdenom |-> subdenom, metadata |-> <<>>])

change_admin(denom, new_admin_address) ==
    LET checked == validate_denom(denom) IN
    IF ~addr_validate(new_admin_address)
    THEN Failed("Std", [address |-> new_admin_address])
    ELSE IF checked.res # "Ok"
    THEN Failed(checked.res, [denom |-> checked.denom, message |-> checked.message])
    ELSE Responded("change_admin",
                   [type |-> "ChangeAdmin", denom |-> denom,
                    new_admin_address |-> new_admin_address])

\* Mutant: the denom is validated before the address and the amount.
mint_tokens_denom_first(denom, amount, mint_to_address) ==
    LET checked == validate_denom(denom) IN
    IF checked.res # "Ok"
    THEN Failed(checked.res, [denom |-> checked.denom, message |-> checked.message])
    ELSE IF ~addr_validate(mint_to_address)
    THEN Failed("Std", [address |-> mint_to_address])
    ELSE IF amount = 0
    THEN Failed("ZeroAmount", <<>>)
    ELSE Responded("mint_tokens", mint_contract_tokens(denom, amount, mint_to_address))

mint_tokens(denom, amount, mint_to_address) ==
    LET checked == validate_denom(denom) IN
    IF ~addr_validate(mint_to_address)
    THEN Failed("Std", [address |-> mint_to_address])
    ELSE IF amount = 0
    THEN Failed("ZeroAmount", <<>>)
    ELSE IF checked.res # "Ok"
    THEN Failed(checked.res, [denom |-> checked.denom, message |-> checked.message])
    ELSE Responded("mint_tokens", mint_contract_tokens(denom, amount, mint_to_address))

burn_tokens(denom, amount, burn_from_address) ==
    LET checked == validate_denom(denom) IN
    IF amount = 0
    THEN Failed("ZeroAmount", <<>>)
    ELSE IF checked.res # "Ok"
    THEN Failed(checked.res, [denom |-> checked.denom, message |-> checked.message])
    ELSE Responded("burn_tokens", burn_contract_tokens(denom, amount, burn_from_address))

force_transfer(denom, amount, from_address, to_address) ==
    LET checked == validate_denom(denom) IN
    IF amount = 0
    THEN Failed("ZeroAmount", <<>>)
    ELSE IF checked.res # "Ok"
    THEN Failed(checked.res, [denom |-> checked.denom, message |-> checked.message])
    ELSE Responded("force_transfer_tokens",
                   force_transfer_tokens(denom, amount, from_address, to_address))

----------------------------------------------------------------------------
(* The contract called with one message: the handler answers, or the denom *)
(* of the message is handed to validate_denom alone, as the tests do.      *)

\* "FACTORY" and "Factory"
FACTORY == <<"F", "A", "C", "T", "O", "R", "Y">>

Factory == <<"F", "a", "c", "t", "o", "r", "y">>

factory == <<"f", "a", "c", "t", "o", "r", "y">>

invalid == <<"i", "n", "v", "a", "l", "i", "d">>

Path(parts) ==
    IF Len(parts) = 0 THEN <<>>
    ELSE IF Len(parts) = 1 THEN parts[1]
    ELSE IF Len(parts) = 2 THEN parts[1] \o <<"/">> \o parts[2]
    ELSE IF Len(parts) = 3 THEN parts[1] \o <<"/">> \o parts[2] \o <<"/">> \o parts[3]
    ELSE parts[1] \o <<"/">> \o parts[2] \o <<"/">> \o parts[3] \o <<"/">> \o parts[4]

\* denom arguments: well-formed ones in three spellings of the prefix, ones
\* with one, two and four parts, a foreign prefix, and ones the chain's
\* FullDenom query refuses; some fail more than one of the tests.
ContractDenoms ==
    {Path(<<factory, govner, fundz>>),
     Path(<<FACTORY, govner, fundz>>),
     Path(<<Factory, townies, <<>>>>),
     Path(<<invalid, govner, fundz>>),
     Path(<<factory, govner>>),
     Path(<<invalid, govner>>),
     Path(<<factory, govner, fundz, invalid>>),
     Path(<<invalid, <<>>, fundz, invalid>>),
     fundz,
     <<>>,
     Path(<<factory, <<>>, fundz>>),
     Path(<<invalid, <<>>, fundz>>),
     Path(<<factory, govner, Rep("s", MaxSubdenomLen + 1)>>)}

ContractSubdenoms == {<<>>, fundz, Rep("s", MaxSubdenomLen + 1), <<"a", "/", "b">>}

ContractAddresses == {<<>>, <<"n", "o">>, townies}

ContractAmounts == {0, 1, TraceAmount}

ExecuteMsgs ==
    {[type |-> "CreateDenom", subdenom |-> sd] : sd \in ContractSubdenoms}
        \cup {[type |-> "ChangeAdmin", denom |-> dn, new_admin_address |-> a] :
                  dn \in ContractDenoms, a \in ContractAddresses}
        \cup {[type |-> "MintTokens", denom |-> dn, amount |-> n, mint_to_address |-> a] :
                  dn \in ContractDenoms, n \in ContractAmounts, a \in ContractAddresses}
        \cup {[type |-> "BurnTokens", denom |-> dn, amount |-> n, burn_from_address |-> a] :
                  dn \in ContractDenoms, n \in ContractAmounts, a \in ContractAddresses}
        \cup {[type |-> "ForceTransfer", denom |-> dn, amount |-> n,
                from_address |-> a, to_address |-> townies] :
                  dn \in ContractDenoms, n \in ContractAmounts, a \in ContractAddresses}

\* A call of the contract: the message, then what the handler returned.
Executed(msg, response) ==
    [op |-> "execute", msg |-> msg, res |-> response.res, err |-> response.err,
     messages |-> response.messages, attributes |-> response.attributes,
     data |-> response.data]

InitContract ==
    /\ ADMIN = <<>>
    /\ METADATA = <<>>
    /\ DENOMS_BY_CREATOR = <<>>
    /\ balances = <<>>
    /\ \E msg \in ExecuteMsgs : last = [op |-> "ExecuteMsg", msg |-> msg, res |-> "Ok"]

ExecuteCreateDenom ==
    /\ last.op = "ExecuteMsg"
    /\ last.msg.type = "CreateDenom"
    /\ last' = Executed(last.msg, create_denom(last.msg.subdenom))
    /\ UNCHANGED registry

ExecuteChangeAdmin ==
    /\ last.op = "ExecuteMsg"
    /\ last.msg.type = "ChangeAdmin"
    /\ last' = Executed(last.msg, change_admin(last.msg.denom, last.msg.new_admin_address))
    /\ UNCHANGED registry

ExecuteMintTokens ==
    /\ last.op = "ExecuteMsg"
    /\ last.msg.type = "MintTokens"
    /\ last' = Executed(last.msg, mint_tokens(last.msg.denom, last.msg.amount,
                                              last.msg.mint_to_address))
    /\ UNCHANGED registry

ExecuteBurnTokens ==
    /\ last.op = "ExecuteMsg"
    /\ last.msg.type = "BurnTokens"
    /\ last' = Executed(last.msg, burn_tokens(last.msg.denom, last.msg.amount,
                                              last.msg.burn_from_address))
    /\ UNCHANGED registry

ExecuteForceTransfer ==
    /\ last.op = "ExecuteMsg"
    /\ last.msg.type = "ForceTransfer"
    /\ last' = Executed(last.msg, force_transfer(last.msg.denom, last.msg.amount,
                                                 last.msg.from_address,
                                                 last.msg.to_address))
    /\ UNCHANGED registry

ValidateDenom ==
    /\ last.op = "ExecuteMsg"
    /\ last.msg.type # "CreateDenom"
    /\ last' = [op |-> "validate_denom", msg |-> last.msg,
                checked |-> validate_denom(last.msg.denom)]
    /\ UNCHANGED registry

NextContract ==
    \/ ExecuteCreateDenom
    \/ ExecuteChangeAdmin
    \/ ExecuteMintTokens
    \/ ExecuteBurnTokens
    \/ ExecuteForceTransfer
    \/ ValidateDenom

SpecContract == InitContract /\ [][NextContract]_vars

----------------------------------------------------------------------------
(* Claims *)

\* C1: for every sender s and subdenom d whose name validates, CreateDenom(d)
\* by s succeeds in a state where factory/s/d has no admin entry; once the
\* entry exists it is there in every later state (whoever its admin then is),
\* and CreateDenom(d) by s fails with TokenExists and changes nothing.
C1_CreateDenomOnce ==
    /\ [](\A s \in Senders, sd \in Subdenoms :
             build_denom(s, sd).ok =>
                 CreateDenomResult(s, sd) =
                     IF FullDenom(s, sd) \in DOMAIN ADMIN THEN "TokenExists" ELSE "Ok")
    /\ [][/\ \A d \in DOMAIN ADMIN : d \in DOMAIN ADMIN'
          /\ (last'.op = "CreateDenom" /\ last'.res = "Ok") =>
                 (last'.denom \notin DOMAIN ADMIN /\ last'.denom \in DOMAIN ADMIN')
          /\ (last'.op = "CreateDenom" /\ last'.res = "TokenExists") =>
                 (last'.denom \in DOMAIN ADMIN /\ registry' = registry)]_vars

\* C1 witness: a second CreateDenom by the creator was refused after a
\* ChangeAdmin had moved the denom to another admin.
C1_Witness ==
    /\ last.op = "CreateDenom"
    /\ last.res = "TokenExists"
    /\ ADMIN[last.denom] # last.sender

\* C2: for every existing denom and every sender that is not its current
\* admin, ChangeAdmin, MintTokens and SetMetadata fail with NotTokenAdmin,
\* nothing is delegated to the ledger, the admin, metadata and
\* denoms-by-creator maps and the balances stay as they were, and the Admin
\* query answers after the call what it answered before.
C2_NotAdminRefused ==
    /\ [](\A d \in DOMAIN ADMIN, s \in Senders :
             ADMIN[d] # s =>
                 /\ \A n \in NewAdmins : ChangeAdminResult(s, d, n) = "NotTokenAdmin"
                 /\ \A acc \in BOOLEAN : MintTokensResult(s, d, acc) = "NotTokenAdmin"
                 /\ \A a \in Amounts, r \in Recipients : MintTokensSudo(s, d, a, r) = <<>>
                 /\ SetMetadataResult(s, d) = "NotTokenAdmin")
    /\ [][\A d \in DOMAIN ADMIN :
             (/\ last'.op \in {"ChangeAdmin", "MintTokens", "SetMetadata"}
              /\ last'.denom = d
              /\ last'.sender # ADMIN[d]) =>
                 /\ last'.res = "NotTokenAdmin"
                 /\ last'.sudo = <<>>
                 /\ registry' = registry
                 /\ QueryAdmin(d)' = QueryAdmin(d)
                 /\ QueryAdmin(d)' = [res |-> "Ok", admin |-> ADMIN[d]]]_vars

\* C2 witness: a ChangeAdmin by a sender who is not the admin was refused.
C2_Witness ==
    /\ last.op = "ChangeAdmin"
    /\ last.res = "NotTokenAdmin"
    /\ QueryAdmin(last.denom).admin # last.sender
    /\ last.new_admin_address = last.sender

\* C3: a CreateDenom, ChangeAdmin, MintTokens or SetMetadata that returns an
\* error leaves the admin, metadata and denoms-by-creator maps and the
\* balances as they were; and CreateDenom's writes are only ever seen
\* together: every denom with an admin entry is in exactly the list of the
\* sender that created it, and a successful CreateDenom has written the admin
\* entry, the list entry and the metadata it was given.
C3_NoPartialWrites ==
    /\ [][(last'.op \in {"CreateDenom", "ChangeAdmin", "MintTokens", "SetMetadata"}
           /\ last'.res # "Ok") => registry' = registry]_vars
    /\ [](\A d \in DOMAIN ADMIN :
             \E c \in DOMAIN DENOMS_BY_CREATOR :
                 \E i \in 1..Len(DENOMS_BY_CREATOR[c]) : DENOMS_BY_CREATOR[c][i] = d)
    /\ [](\A c \in DOMAIN DENOMS_BY_CREATOR :
             \A i \in 1..Len(DENOMS_BY_CREATOR[c]) : DENOMS_BY_CREATOR[c][i] \in DOMAIN ADMIN)
    /\ []((last.op = "CreateDenom" /\ last.res = "Ok") =>
             /\ last.denom \in DOMAIN ADMIN
             /\ last.sender \in DOMAIN DENOMS_BY_CREATOR
             /\ \E i \in 1..Len(DENOMS_BY_CREATOR[last.sender]) :
                    DENOMS_BY_CREATOR[last.sender][i] = last.denom
             /\ last.metadata # <<>> => may_load(METADATA, last.denom) = last.metadata)

\* C3 witness: a ChangeAdmin by the admin failed on the new admin address,
\* with a registry that holds a denom, metadata and a balance.
C3_Witness ==
    /\ last.op = "ChangeAdmin"
    /\ last.res = "StdError"
    /\ ADMIN[last.denom] = last.sender
    /\ METADATA # <<>>
    /\ balances # <<>>

\* C4: a denom has no admin entry until the first successful CreateDenom for
\* it, which sets the entry to the sender; the entry is never removed; and
\* its value changes only in a successful ChangeAdmin on that denom sent by
\* the admin of the moment.
C4_AdminLifecycle ==
    /\ ADMIN = <<>>
    /\ [][\A d \in DOMAIN ADMIN \cup DOMAIN ADMIN' :
             /\ d \in DOMAIN ADMIN => d \in DOMAIN ADMIN'
             /\ d \notin DOMAIN ADMIN =>
                    /\ last'.op = "CreateDenom"
                    /\ last'.res = "Ok"
                    /\ last'.denom = d
                    /\ ADMIN'[d] = last'.sender
             /\ (d \in DOMAIN ADMIN /\ ADMIN'[d] # ADMIN[d]) =>
                    /\ last'.op = "ChangeAdmin"
                    /\ last'.res = "Ok"
                    /\ last'.denom = d
                    /\ last'.sender = ADMIN[d]
                    /\ ADMIN'[d] = last'.new_admin_address]_vars

\* C4 witness: a denom whose admin is no longer its creator, and a
\* SetMetadata by the new admin that left the entry alone.
C4_Witness ==
    /\ last.op = "SetMetadata"
    /\ last.res = "Ok"
    /\ \E c \in DOMAIN DENOMS_BY_CREATOR :
           /\ DENOMS_BY_CREATOR[c][1] = last.denom
           /\ ADMIN[last.denom] # c

\* What passes the admin check: neither of its two errors.
PassesAdminCheck(res) == res \notin {"TokenDoesntExist", "NotTokenAdmin"}

\* C5: after a successful ChangeAdmin(denom, X) sent by the admin A, X other
\* than A, the Admin query returns X, a ChangeAdmin, MintTokens or
\* SetMetadata on the denom sent by A fails with NotTokenAdmin and the same
\* sent by X passes the admin check; this lasts until X changes the admin:
\* the entry changes in no step but a ChangeAdmin sent by its current value,
\* and in every state the admin passes the check and no one else does.
C5_AdminHandover ==
    /\ [][\A d \in Denoms, A \in Senders, X \in NewAdmins :
             (/\ last'.op = "ChangeAdmin"
              /\ last'.res = "Ok"
              /\ last'.denom = d
              /\ last'.sender = A
              /\ last'.new_admin_address = X
              /\ X # A) =>
                 /\ ADMIN[d] = A
                 /\ QueryAdmin(d)' = [res |-> "Ok", admin |-> X]
                 /\ \A n \in NewAdmins : ChangeAdminResult(A, d, n)' = "NotTokenAdmin"
                 /\ \A acc \in BOOLEAN : MintTokensResult(A, d, acc)' = "NotTokenAdmin"
                 /\ SetMetadataResult(A, d)' = "NotTokenAdmin"
                 /\ \A n \in NewAdmins : PassesAdminCheck(ChangeAdminResult(X, d, n))'
                 /\ \A acc \in BOOLEAN : PassesAdminCheck(MintTokensResult(X, d, acc))'
                 /\ PassesAdminCheck(SetMetadataResult(X, d))']_vars
    /\ [][\A d \in DOMAIN ADMIN :
             ADMIN'[d] # ADMIN[d] =>
                 (last'.op = "ChangeAdmin" /\ last'.sender = ADMIN[d])]_vars
    /\ [](\A d \in DOMAIN ADMIN, s \in Senders :
             /\ QueryAdmin(d) = [res |-> "Ok", admin |-> ADMIN[d]]
             /\ \A n \in NewAdmins :
                    PassesAdminCheck(ChangeAdminResult(s, d, n)) <=> s = ADMIN[d]
             /\ \A acc \in BOOLEAN :
                    PassesAdminCheck(MintTokensResult(s, d, acc)) <=> s = ADMIN[d]
             /\ PassesAdminCheck(SetMetadataResult(s, d)) <=> s = ADMIN[d])

\* C5 witness: after the handover the creator's MintTokens was refused.
C5_Witness ==
    /\ last.op = "MintTokens"
    /\ last.res = "NotTokenAdmin"
    /\ last.sender \in DOMAIN DENOMS_BY_CREATOR
    /\ DENOMS_BY_CREATOR[last.sender][1] = last.denom
    /\ ADMIN[last.denom] \in Senders

\* C6: a ChangeAdmin sent by the current admin with an empty new_admin_address
\* is accepted and leaves the denom without admin, so that afterwards no
\* sender passes the admin check; only a non-empty new_admin_address that is
\* no valid identity is refused.
C6_EmptyNewAdminAccepted ==
    (/\ last.op = "ChangeAdmin"
     /\ last.new_admin_address = <<>>
     /\ PassesAdminCheck(last.res)) =>
        /\ last.res = "Ok"
        /\ \A s \in Senders : ~PassesAdminCheck(ensure_admin(s, last.denom))

\* C7: a MintTokens with amount zero fails with ZeroAmount for every sender,
\* denom and recipient, and nothing is delegated to the ledger.
C7_ZeroMintRefused ==
    (last.op = "MintTokens" /\ last.amount = 0) =>
        (last.res = "ZeroAmount" /\ last.sudo = <<>>)

\* C8: for a denom that was never created, MintTokens, ChangeAdmin and
\* SetMetadata fail with TokenDoesntExist for every sender (never with
\* NotTokenAdmin: the existence check comes first), nothing is delegated to
\* the ledger, the Admin query fails with the store's not-found error for the
\* missing admin entry, and the registry is left as it was; once the denom is
\* created, a MintTokens of a positive amount by its creator succeeds.
C8_UnknownDenom ==
    /\ [](\A d \in Denoms \ DOMAIN ADMIN, s \in Senders :
             /\ \A acc \in BOOLEAN : MintTokensResult(s, d, acc) = "TokenDoesntExist"
             /\ \A a \in Amounts, r \in Recipients : MintTokensSudo(s, d, a, r) = <<>>
             /\ \A n \in NewAdmins : ChangeAdminResult(s, d, n) = "TokenDoesntExist"
             /\ SetMetadataResult(s, d) = "TokenDoesntExist"
             /\ QueryAdmin(d).res = "NotFound")
    /\ [][\A d \in Denoms \ DOMAIN ADMIN :
             (/\ last'.op \in {"MintTokens", "ChangeAdmin", "SetMetadata"}
              /\ last'.denom = d) =>
                 /\ last'.res = "TokenDoesntExist"
                 /\ registry' = registry]_vars
    /\ [][\A d \in Denoms, s \in Senders :
             (/\ last'.op = "CreateDenom"
              /\ last'.res = "Ok"
              /\ last'.denom = d
              /\ last'.sender = s) =>
                 /\ d \notin DOMAIN ADMIN
                 /\ MintTokensResult(s, d, TRUE)' = "Ok"
                 /\ \A a \in Amounts \ {0}, r \in Recipients :
                        MintTokensSudo(s, d, a, r)' = <<BankSudoMint(r, a, d)>>]_vars

\* C8 witness: the creator minted a positive amount of a denom that has a
\* balance only since it was created.
C8_Witness ==
    /\ last.op = "MintTokens"
    /\ last.res = "Ok"
    /\ last.amount > 0
    /\ last.sender \in DOMAIN DENOMS_BY_CREATOR
    /\ DENOMS_BY_CREATOR[last.sender][1] = last.denom
    /\ Balance(last.address, last.denom) = last.amount
    /\ \E d \in Denoms \ DOMAIN ADMIN : QueryAdmin(d).res = "NotFound"

\* The addresses and denoms whose balances are looked at.
Holders == Senders \cup Recipients

\* C9: a successful MintTokens(denom, amount, recipient) raises the
\* recipient's balance of exactly that denom by amount, leaves every other
\* balance and the admin, metadata and denoms-by-creator maps as they were;
\* the bare subdenom is never credited.  (n successful mints in a row
\* therefore raise the balance by n times amount.)
C9_MintCredits ==
    /\ [][\A d \in Denoms, r \in Recipients, a \in Amounts :
             (/\ last'.op = "MintTokens"
              /\ last'.res = "Ok"
              /\ last'.denom = d
              /\ last'.address = r
              /\ last'.amount = a) =>
                 /\ ADMIN[d] = last'.sender
                 /\ last'.sudo = <<BankSudoMint(r, a, d)>>
                 /\ Balance(r, d)' = Balance(r, d) + a
                 /\ \A h \in Holders, e \in Denoms :
                        <<h, e>> # <<r, d>> => Balance(h, e)' = Balance(h, e)
                 /\ DOMAIN balances' \subseteq DOMAIN balances \cup {<<r, d>>}
                 /\ UNCHANGED <<ADMIN, METADATA, DENOMS_BY_CREATOR>>]_vars
    /\ [](\A h \in Holders : Balance(h, fundz) = 0)
    /\ [](\A k \in DOMAIN balances : k[2] \in DOMAIN ADMIN)

\* C9 witness: a second mint of the same amount of the same denom to the
\* same recipient: the balance is twice the amount.
C9_Witness ==
    /\ last.op = "MintTokens"
    /\ last.res = "Ok"
    /\ last.amount > 0
    /\ Balance(last.address, last.denom) = 2 * last.amount
    /\ \E e \in DOMAIN ADMIN : Balance(last.address, e) = 0

\* C10: BurnTokens and ForceTransfer always return a result: ZeroAmount for
\* a zero amount, TokenDoesntExist for a denom without admin entry,
\* NotTokenAdmin for a sender that is not the admin, and success only for
\* the admin; neither aborts.
C10_BurnAndForceTransferReturn ==
    last.op \in {"BurnTokens", "ForceTransfer"} =>
        last.res = IF last.amount = 0 THEN "ZeroAmount" ELSE ensure_admin(last.sender, last.denom)

\* C11: the Params query returns the Unimplemented error as a value in every
\* registry state: it never aborts and never answers with parameters.
C11_ParamsUnimplemented ==
    last.op = "QueryParams" => last.res = "Unimplemented"

\* C12: build_denom(creator, subdenom) succeeds exactly when the candidate
\* factory/{creator}/{subdenom} has 3 to 128 bytes, the creator has no '/'
\* and at most 75 bytes and the subdenom at most 44 bytes (the empty
\* subdenom included); it then returns the candidate, and otherwise fails
\* with InvalidFullDenom carrying the candidate.
C12_BuildDenom ==
    last.op = "build_denom" =>
        LET c == last.creator
            sd == last.subdenom
            n == 8 + Len(c) + 1 + Len(sd)
            valid == /\ n >= 3 /\ n <= 128
                     /\ \A i \in 1..Len(c) : c[i] # "/"
                     /\ Len(c) <= 75
                     /\ Len(sd) <= 44
        IN /\ last.res = IF valid THEN "Ok" ELSE "InvalidFullDenom"
           /\ Len(last.denom) = n
           /\ SubSeq(last.denom, 1, 8) = <<"f", "a", "c", "t", "o", "r", "y", "/">>
           /\ SubSeq(last.denom, 9, 8 + Len(c)) = c
           /\ last.denom[9 + Len(c)] = "/"
           /\ SubSeq(last.denom, 10 + Len(c), n) = sd

\* C12 witness: the longest valid name, 75 + 44 bytes under the prefix, is
\* returned, and so is the name of the empty subdenom.
C12_Witness ==
    /\ last.op = "build_denom"
    /\ last.res = "Ok"
    /\ Len(last.creator) = 75
    /\ Len(last.subdenom) = 44
    /\ Len(last.denom) = 128

\* C13: in every reachable state every denom with an admin entry reads
\* factory/<creator>/<subdenom>: the exact lowercase prefix "factory", 3 to
\* 128 bytes in all, a creator of at most 75 bytes without '/', and a
\* subdenom of at most 44 bytes.
C13_AdminDenomsCanonical ==
    \A d \in DOMAIN ADMIN :
        /\ Len(d) >= 3 /\ Len(d) <= 128
        /\ \E k \in 0..75 :
               /\ Len(d) >= 9 + k
               /\ SubSeq(d, 1, 8) = <<"f", "a", "c", "t", "o", "r", "y", "/">>
               /\ \A i \in 9..(8 + k) : d[i] # "/"
               /\ d[9 + k] = "/"
               /\ Len(d) - (9 + k) <= 44

\* C13 witness: the names at the limits have admin entries: the one of 128
\* bytes and the one with the empty subdenom.
C13_Witness ==
    /\ \E d \in DOMAIN ADMIN : Len(d) = 128
    /\ FullDenom(govner, <<>>) \in DOMAIN ADMIN
    /\ \E d \in DOMAIN ADMIN : ADMIN[d] # govner /\ SubSeq(d, 9, 14) = govner

\* C14 (as stated): in every registry state the FullDenom query succeeds
\* exactly when build_denom accepts the pair, and fails only when it rejects it.
C14_FullDenomOnlyValidator ==
    last.op = "QueryFullDenom" =>
        (last.res = "Ok" <=> build_denom(last.creator, last.subdenom).ok)

\* C14: in every registry state, whether or not the denom was created, the
\* FullDenom query first validates creator_addr as an address and fails with
\* the address error when it is refused; otherwise it returns the canonical
\* string exactly when build_denom accepts the pair, and fails with
\* InvalidFullDenom when build_denom rejects it.
C14_FullDenomQuery ==
    /\ \A c \in CreatorAddrs, sd \in QuerySubdenoms :
           QueryFullDenom(c, sd).res =
               IF ~addr_validate(c) THEN "InvalidAddress"
               ELSE IF build_denom(c, sd).ok THEN "Ok"
               ELSE "InvalidFullDenom"
    /\ last.op = "QueryFullDenom" =>
           /\ last.res = QueryFullDenom(last.creator, last.subdenom).res
           /\ last.res = "Ok" =>
                  last.value = <<"f", "a", "c", "t", "o", "r", "y", "/">>
                                   \o last.creator \o <<"/">> \o last.subdenom

\* C14 witness: the query answers with the name of a denom that was never
\* created, in a registry that holds other denoms.
C14_Witness ==
    /\ last.op = "QueryFullDenom"
    /\ last.res = "Ok"
    /\ last.value \notin DOMAIN ADMIN
    /\ ADMIN # <<>>

\* C15: the Metadata query never fails; it answers 'absent' for a denom until
\* a CreateDenom that supplied metadata or a successful SetMetadata on it, and
\* from then on exactly the record of the latest such operation, each
\* SetMetadata replacing the whole record; no other operation changes the
\* answer.
C15_MetadataQuery ==
    /\ \A d \in Denoms : QueryMetadata(d).metadata = <<>>
    /\ [](\A d \in Denoms : QueryMetadata(d).res = "Ok")
    /\ [][\A d \in Denoms :
              IF last'.op = "SetMetadata" /\ last'.res = "Ok" /\ last'.denom = d
              THEN QueryMetadata(d).metadata' = last'.metadata
              ELSE IF last'.op = "CreateDenom" /\ last'.res = "Ok" /\ last'.denom = d
              THEN /\ QueryMetadata(d).metadata = <<>>
                   /\ QueryMetadata(d).metadata' = last'.metadata
              ELSE QueryMetadata(d).metadata' = QueryMetadata(d).metadata]_vars

\* C15 witness: a SetMetadata has replaced the record a CreateDenom supplied,
\* while another denom still answers with the record of its creation.
C15_Witness ==
    /\ last.op = "SetMetadata"
    /\ last.res = "Ok"
    /\ last.metadata = <<MetaOther>>
    /\ QueryMetadata(last.denom).metadata = <<MetaOther>>
    /\ \E d \in Denoms : QueryMetadata(d).metadata = <<MetaFundz>>

\* C16 (as stated): the DenomsByCreator query never fails, whatever the
\* creator argument, and returns the creator's stored list or the empty list.
C16_DenomsByCreatorNeverFails ==
    \A c \in CreatorAddrs :
        /\ QueryDenomsByCreator(c).res = "Ok"
        /\ QueryDenomsByCreator(c).denoms =
               IF c \in DOMAIN DENOMS_BY_CREATOR THEN DENOMS_BY_CREATOR[c] ELSE <<>>

\* C16: the DenomsByCreator query fails with the address error for a creator
\* argument that is no valid address; for a valid one it never fails and
\* returns the denoms that creator created, in the order of creation: the
\* empty list at first, then one denom appended by each successful
\* CreateDenom of that creator, and unchanged by every other step
\* (ChangeAdmin, MintTokens, SetMetadata, queries, failed messages).
C16_DenomsByCreator ==
    /\ \A c \in CreatorAddrs : QueryDenomsByCreator(c).denoms = <<>>
    /\ [](\A c \in CreatorAddrs :
             QueryDenomsByCreator(c).res = IF addr_validate(c) THEN "Ok" ELSE "InvalidAddress")
    /\ [](last.op = "QueryDenomsByCreator" =>
             /\ last.res = QueryDenomsByCreator(last.creator).res
             /\ last.value = QueryDenomsByCreator(last.creator).denoms)
    /\ [][\A c \in CreatorAddrs :
              IF /\ last'.op = "CreateDenom" /\ last'.res = "Ok"
                 /\ last'.sender = c /\ addr_validate(c)
              THEN QueryDenomsByCreator(c).denoms' =
                       Append(QueryDenomsByCreator(c).denoms, last'.denom)
              ELSE QueryDenomsByCreator(c).denoms' = QueryDenomsByCreator(c).denoms]_vars

\* C16 witness: the query answers with a list of two denoms, the one of the
\* empty subdenom created first, after the admin of the first was changed
\* and the second was minted.
C16_Witness ==
    /\ last.op = "QueryDenomsByCreator"
    /\ last.res = "Ok"
    /\ last.value = <<FullDenom(last.creator, <<>>), FullDenom(last.creator, fundz)>>
    /\ ADMIN[last.value[1]] # last.creator
    /\ Balance(townies, last.value[2]) > 0

\* C17: a ChangeAdmin or SetMetadata that succeeded and is sent again at
\* once, by the same sender with the same arguments, leaves the admin map,
\* the metadata map and the creators' lists as the first call left them
\* (whether the second call succeeds or is refused).
C17_RepeatKeepsRegistry ==
    [][(/\ last.op \in {"ChangeAdmin", "SetMetadata"}
        /\ last.res = "Ok"
        /\ last'.op = last.op
        /\ last'.sender = last.sender
        /\ last'.denom = last.denom
        /\ last'.new_admin_address = last.new_admin_address
        /\ last'.metadata = last.metadata) =>
           <<ADMIN, METADATA, DENOMS_BY_CREATOR>>' = <<ADMIN, METADATA, DENOMS_BY_CREATOR>>]_vars

\* C17 witness: the creator handed the denom over and sent the same
\* ChangeAdmin again: it is refused and the new admin is still the admin.
C17_Witness ==
    /\ last.op = "ChangeAdmin"
    /\ last.res = "NotTokenAdmin"
    /\ last.denom \in DOMAIN ADMIN
    /\ ADMIN[last.denom] = last.new_admin_address
    /\ last.denom = FullDenom(last.sender, fundz)

\* C19: for a non-empty buffer with first byte t and requested field number
\* f, the parser fails with FieldMismatch exactly when t >> 3 differs from f;
\* otherwise it fails with WireTypeMismatch exactly when the low two bits of
\* t differ from 2.  When both differ, FieldMismatch is reported.
C19_TagChecks ==
    (last.op = "parse_protobuf_string" /\ last.data # <<>>) =>
        LET t == last.data[1]
            f == last.field_number
            high == CHOOSE h \in 0..31 : \E low \in 0..7 : t = 8 * h + low
            low2 == CHOOSE l \in 0..3 : \E q \in 0..63 : t = 4 * q + l
        IN /\ last.res = "FieldMismatch" <=> high # f
           /\ high = f => (last.res = "WireTypeMismatch" <=> low2 # 2)

\* C19 witness: a tag whose field number and wire type are both wrong is
\* reported as FieldMismatch.
C19_Witness ==
    /\ last.op = "parse_protobuf_string"
    /\ last.data # <<>>
    /\ last.data[1] = 16
    /\ last.field_number = 1
    /\ last.res = "FieldMismatch"

C18_ReplyRoundTrip ==
    [][(last'.op = "CreateDenom" /\ last'.res = "Ok") =>
           LET data == CreateDenomData(last'.sender, last'.subdenom) IN
           /\ data # <<>>
           /\ data[1][1] = 10
           /\ from_reply_data(data[1]) = Parsed("Ok", as_bytes(last'.denom), <<>>)
           /\ last'.denom \in DOMAIN ADMIN'
           /\ last'.denom \notin DOMAIN ADMIN]_vars

\* C18 witness: a denom of 128 bytes was created; the length in its response
\* takes the two bytes 0x80 0x01.
C18_Witness ==
    /\ last.op = "CreateDenom"
    /\ last.res = "Ok"
    /\ Len(last.denom) = 128
    /\ SubSeq(encode(last.denom), 1, 3) = <<10, 128, 1>>
    /\ from_reply_data(encode(last.denom)).value = as_bytes(last.denom)

\* C21: behind a matching tag and a well-formed varint the parser fails with
\* PayloadTooShort exactly when fewer bytes are left behind the varint than
\* the length says (a length of 50 before 10 bytes); the test comes before
\* the payload is cut off, so the field returned and the bytes left over are
\* never more than the buffer held.
C21_PayloadTooShort ==
    (/\ last.op = "parse_protobuf_string"
     /\ last.data # <<>>
     /\ last.res \notin {"FieldMismatch", "WireTypeMismatch", "VarintTooShort", "VarintTooLong"}) =>
        LET varint == parse_protobuf_varint(Drop(last.data, 1)) IN
        /\ varint.res = "Ok"
        /\ last.res = "PayloadTooShort" <=>
               (varint.high # <<0, 0>> \/ Len(varint.rest) < varint.len)
        /\ last.res = "PayloadTooShort" => last.value = <<>>
        /\ last.res = "Ok" =>
               /\ Len(last.value) = varint.len
               /\ Len(last.value) + Len(last.rest) = Len(varint.rest)

\* C21 witness: a length of 50 before 10 bytes is refused.
C21_Witness ==
    /\ last.op = "parse_protobuf_string"
    /\ last.res = "PayloadTooShort"
    /\ last.data[2] = 50
    /\ Len(last.data) = 12

\* C22 (as stated): the tag 0x0A, the length 16 and the bytes of
\* "factory/abc/xyz" parse at field 1 to Ok("factory/abc/xyz").
C22_RoundTripLength16 ==
    (/\ last.op = "parse_protobuf_string"
     /\ last.field_number = 1
     /\ last.data = <<10, 16>> \o as_bytes(abc_xyz)) =>
        (last.res = "Ok" /\ last.value = as_bytes(abc_xyz))

\* C22: the tag 0x0A, the length 15 and the 15 bytes of "factory/abc/xyz"
\* parse at field 1 to Ok("factory/abc/xyz"), and no byte is left.
C22_RoundTrip ==
    (/\ last.op = "parse_protobuf_string"
     /\ last.field_number = 1
     /\ last.data = <<10, 15>> \o as_bytes(abc_xyz)) =>
        (last.res = "Ok" /\ last.value = as_bytes(abc_xyz) /\ last.rest = <<>>)

\* C22 witness: that buffer was parsed.
C22_Witness ==
    /\ last.op = "parse_protobuf_string"
    /\ last.field_number = 1
    /\ last.data = <<10, 15, 102, 97, 99, 116, 111, 114, 121, 47, 97, 98, 99, 47, 120, 121, 122>>
    /\ last.res = "Ok"

\* C23: for every field number asked for, the empty buffer parses to the
\* empty string; no tag, field number or wire type is tested.
C23_EmptyBuffer ==
    /\ \A f \in FieldNumbers : parse_protobuf_string(<<>>, f) = Parsed("Ok", <<>>, <<>>)
    /\ (last.op = "parse_protobuf_string" /\ last.data = <<>>) =>
           (last.res = "Ok" /\ last.value = <<>> /\ last.rest = <<>>)

\* C23 witness: the empty buffer was parsed for a field number no tag byte
\* can carry.
C23_Witness ==
    /\ last.op = "parse_protobuf_string"
    /\ last.data = <<>>
    /\ last.field_number = 32
    /\ last.res = "Ok"

\* C25: when a record parses, the field returned is exactly the `length`
\* bytes behind the varint; the bytes behind them are left in the buffer,
\* and whatever bytes are put behind the record, the same field is returned.
C25_TrailingBytes ==
    (last.op = "parse_protobuf_string" /\ last.res = "Ok" /\ last.data # <<>>) =>
        LET varint == parse_protobuf_varint(Drop(last.data, 1)) IN
        /\ last.value = SubSeq(varint.rest, 1, varint.len)
        /\ last.rest = SubSeq(varint.rest, varint.len + 1, Len(varint.rest))
        /\ \A t \in Trailers \cup {<<b>> : b \in 0..255} :
               parse_protobuf_string(last.data \o t, last.field_number) =
                   Parsed("Ok", last.value, last.rest \o t)

\* C25 witness: a record with a byte behind it that is not UTF-8: the name
\* is returned and the byte is left.
C25_Witness ==
    /\ last.op = "parse_protobuf_string"
    /\ last.res = "Ok"
    /\ last.value = as_bytes(abc_xyz)
    /\ last.rest = <<255>>

\* C24: the trace of the test, from the empty registry: FullDenom(govner,
\* fundz) answers factory/govner/fundz, also before the denom is created;
\* MintTokens on it by govner fails with TokenDoesntExist until govner's
\* CreateDenom(fundz, metadata with display FUNDZ), which succeeds; then
\* govner's mint of 1234567 to townies succeeds and adds exactly 1234567 to
\* what townies holds of factory/govner/fundz and nothing to what it holds
\* of fundz; the Metadata query returns display FUNDZ, the Admin query
\* govner, and MintTokens sent by townies fails with NotTokenAdmin.
C24_Trace ==
    /\ [](/\ (/\ last.op = "QueryFullDenom"
               /\ last.creator = govner
               /\ last.subdenom = fundz) =>
                  (last.res = "Ok" /\ last.value = factory_govner_fundz)
          /\ (/\ last.op = "QueryMetadata"
               /\ last.denom = factory_govner_fundz
               /\ factory_govner_fundz \in DOMAIN ADMIN) =>
                  (/\ last.res = "Ok"
                   /\ last.value # <<>>
                   /\ last.value[1].display = <<"FUNDZ">>)
          /\ (/\ last.op = "QueryAdmin"
               /\ last.denom = factory_govner_fundz
               /\ factory_govner_fundz \in DOMAIN ADMIN) =>
                  (last.res = "Ok" /\ last.value = govner)
          /\ (/\ last.op = "MintTokens"
               /\ last.sender = townies
               /\ last.denom = factory_govner_fundz
               /\ factory_govner_fundz \in DOMAIN ADMIN) =>
                  last.res = "NotTokenAdmin"
          /\ Balance(townies, fundz) = 0)
    /\ [][/\ (/\ last'.op = "MintTokens"
               /\ last'.sender = govner
               /\ last'.denom = factory_govner_fundz
               /\ factory_govner_fundz \notin DOMAIN ADMIN) =>
                  (last'.res = "TokenDoesntExist" /\ registry' = registry)
          /\ (/\ last'.op = "CreateDenom"
               /\ last'.sender = govner
               /\ last'.subdenom = fundz
               /\ factory_govner_fundz \notin DOMAIN ADMIN) =>
                  (/\ last'.res = "Ok"
                   /\ last'.denom = factory_govner_fundz
                   /\ factory_govner_fundz \in DOMAIN ADMIN'
                   /\ UNCHANGED balances)
          /\ (/\ last'.op = "MintTokens"
               /\ last'.sender = govner
               /\ last'.denom = factory_govner_fundz
               /\ last'.amount = 1234567
               /\ last'.address = townies
               /\ factory_govner_fundz \in DOMAIN ADMIN) =>
                  (/\ last'.res = "Ok"
                   /\ Balance(townies, factory_govner_fundz)' =
                          Balance(townies, factory_govner_fundz) + 1234567)]_vars

\* C24 witness: the end of the trace: after one mint townies holds 1234567
\* of factory/govner/fundz and nothing of fundz, govner is the admin, the
\* metadata shows FUNDZ, and the mint townies sent was refused.
C24_Witness ==
    /\ last.op = "MintTokens"
    /\ last.sender = townies
    /\ last.denom = factory_govner_fundz
    /\ last.res = "NotTokenAdmin"
    /\ Balance(townies, factory_govner_fundz) = 1234567
    /\ Balance(townies, fundz) = 0
    /\ QueryAdmin(factory_govner_fundz).admin = govner
    /\ QueryMetadata(factory_govner_fundz).metadata[1].display = <<"FUNDZ">>

\* C26: validate_denom(d) succeeds exactly when d has two '/' (three parts),
\* the first part is "factory" in any ASCII case, and the FullDenom query
\* for the second and third part succeeds; every failure is InvalidDenom
\* carrying d.  The part count is reported first ("... had N"), then the
\* prefix ("... was P"), then the query's error.
C26_ValidateDenom ==
    last.op = "validate_denom" =>
        LET d == last.msg.denom
            c == last.checked
            at == {i \in 1..Len(d) : d[i] = "/"}
            N == Cardinality(at) + 1
            i1 == CHOOSE i \in at : \A j \in at : i <= j
            i2 == CHOOSE i \in at : \A j \in at : j <= i
            P == SubSeq(d, 1, i1 - 1)
            prefixed == /\ Len(P) = 7
                        /\ \A i \in 1..7 : P[i] \in {factory[i], FACTORY[i]}
            looked == QueryFullDenom(SubSeq(d, i1 + 1, i2 - 1), SubSeq(d, i2 + 1, Len(d)))
        IN
        /\ c.res \in {"Ok", "InvalidDenom"}
        /\ c.res = "Ok" <=> (N = 3 /\ prefixed /\ looked.res = "Ok")
        /\ c.res = "InvalidDenom" => c.denom = d
        /\ N # 3 => c.message = <<"denom must have 3 parts separated by /, had ", N>>
        /\ (N = 3 /\ ~prefixed) => c.message = <<"prefix must be 'factory', was ", P>>
        /\ (N = 3 /\ prefixed /\ looked.res # "Ok") => c.message = <<looked.res>>

\* C26 witness: FACTORY/govner/fundz was validated and accepted.
C26_Witness ==
    /\ last.op = "validate_denom"
    /\ last.msg.denom = Path(<<FACTORY, govner, fundz>>)
    /\ last.checked.res = "Ok"

\* C27: the contract's BurnTokens handler, given a non-zero amount and a
\* valid denom, succeeds whatever burn_from_address is, and the BurnTokens
\* message it emits has the empty string as burn_from_address and the
\* denom and amount of the call.
C27_BurnFromDisabled ==
    (/\ last.op = "execute"
     /\ last.msg.type = "BurnTokens"
     /\ last.msg.amount # 0
     /\ last.msg.denom \in {Path(<<factory, govner, fundz>>),
                            Path(<<FACTORY, govner, fundz>>),
                            Path(<<Factory, townies, <<>>>>)}) =>
        /\ last.res = "Ok"
        /\ Len(last.messages) = 1
        /\ last.messages[1].type = "BurnTokens"
        /\ last.messages[1].burn_from_address = <<>>
        /\ last.messages[1].denom = last.msg.denom
        /\ last.messages[1].amount = last.msg.amount

\* C27 witness: a burn of 1234567 factory/govner/fundz from townies was
\* answered with a message that names no address.
C27_Witness ==
    /\ last.op = "execute"
    /\ last.msg.type = "BurnTokens"
    /\ last.msg.burn_from_address = townies
    /\ last.msg.amount = TraceAmount
    /\ last.msg.denom = Path(<<factory, govner, fundz>>)
    /\ last.res = "Ok"
    /\ last.messages[1].burn_from_address = <<>>

\* C28: the handlers test in this order: change_admin the new admin's
\* address, then the denom; mint_tokens the recipient's address, then the
\* amount (ZeroAmount), then the denom; burn_tokens and force_transfer the
\* amount (ZeroAmount), then the denom.  A handler that fails emits no
\* message.
C28_CheckOrder ==
    last.op = "execute" =>
        /\ (last.msg.type = "ChangeAdmin" /\ Len(last.msg.new_admin_address) < 3) =>
               last.res = "Std"
        /\ (last.msg.type = "ChangeAdmin" /\ last.res = "InvalidDenom") =>
               Len(last.msg.new_admin_address) >= 3
        /\ (last.msg.type = "MintTokens" /\ Len(last.msg.mint_to_address) < 3) =>
               last.res = "Std"
        /\ (/\ last.msg.type = "MintTokens"
            /\ Len(last.msg.mint_to_address) >= 3
            /\ last.msg.amount = 0) => last.res = "ZeroAmount"
        /\ (last.msg.type = "MintTokens" /\ last.res = "InvalidDenom") =>
               (Len(last.msg.mint_to_address) >= 3 /\ last.msg.amount # 0)
        /\ (last.msg.type \in {"BurnTokens", "ForceTransfer"} /\ last.msg.amount = 0) =>
               last.res = "ZeroAmount"
        /\ (last.msg.type \in {"BurnTokens", "ForceTransfer"} /\ last.res = "InvalidDenom") =>
               last.msg.amount # 0
        /\ last.res # "Ok" => last.messages = <<>>

\* C28 witness: a mint of nothing, of a denom with one part, to the empty
\* address was refused for the address.
C28_Witness ==
    /\ last.op = "execute"
    /\ last.msg.type = "MintTokens"
    /\ last.msg.mint_to_address = <<>>
    /\ last.msg.amount = 0
    /\ last.msg.denom = fundz
    /\ last.res = "Std"
    /\ last.messages = <<>>

\* C29: the contract's CreateDenom handler refuses the empty subdenom with
\* InvalidSubdenom carrying it and emits nothing; for every other subdenom
\* it succeeds with one TokenMsg::CreateDenom of that subdenom and no
\* metadata, the one attribute method=create_denom, and no data.
C29_ContractCreateDenom ==
    (last.op = "execute" /\ last.msg.type = "CreateDenom") =>
        IF last.msg.subdenom = <<>>
        THEN /\ last.res = "InvalidSubdenom"
             /\ last.err.subdenom = last.msg.subdenom
             /\ last.messages = <<>>
        ELSE /\ last.res = "Ok"
             /\ Len(last.messages) = 1
             /\ last.messages[1].type = "CreateDenom"
             /\ last.messages[1].subdenom = last.msg.subdenom
             /\ last.messages[1].metadata = <<>>
             /\ last.attributes = <<<<"method", "create_denom">>>>
             /\ last.data = <<>>

\* C29 witness: a subdenom of 45 bytes, which the chain would refuse, was
\* passed on by the handler.
C29_Witness ==
    /\ last.op = "execute"
    /\ last.msg.type = "CreateDenom"
    /\ last.msg.subdenom = Rep("s", MaxSubdenomLen + 1)
    /\ last.res = "Ok"
    /\ last.messages[1].subdenom = Rep("s", MaxSubdenomLen + 1)

\* C30: the lists of DENOMS_BY_CREATOR partition the denoms that have an
\* admin entry: each such denom is at exactly one place of exactly one
\* list, the list of the creator its second part names; no list holds a
\* denom twice or one without an admin entry.  A change of admin leaves the
\* denom where it is.
C30_ListsPartitionDenoms ==
    LET places == UNION {{<<c, i>> : i \in 1..Len(DENOMS_BY_CREATOR[c])} :
                            c \in DOMAIN DENOMS_BY_CREATOR}
    IN
    /\ \A denom \in DOMAIN ADMIN :
           LET at == {p \in places : DENOMS_BY_CREATOR[p[1]][p[2]] = denom} IN
           /\ Cardinality(at) = 1
           /\ \A p \in at : p[1] = split(denom, "/")[2]
    /\ \A p \in places : DENOMS_BY_CREATOR[p[1]][p[2]] \in DOMAIN ADMIN

\* C30 witness: two creators have made two denoms each, and govner has
\* handed one of them to the other creator.
C30_Witness ==
    /\ \A c \in LimitAdmins :
           c \in DOMAIN DENOMS_BY_CREATOR /\ Len(DENOMS_BY_CREATOR[c]) = 2
    /\ FullDenom(govner, <<>>) \in DOMAIN ADMIN
    /\ ADMIN[FullDenom(govner, <<>>)] = Rep("c", MaxCreatorLen)
    /\ last.op = "ChangeAdmin"
    /\ last.res = "Ok"

\* C34: for every buffer and field number the parser returns Ok or one of
\* its errors; what it decides about the header depends on the tag byte and
\* at most 9 bytes of varint; the length it adds up is the number whose
\* base-128 digits are the low seven bits of the bytes read and is at most
\* 2^63 - 1, so no addition wraps; and the field returned and the bytes left
\* over are pieces of the buffer, cut inside it.
C34_DecoderSafe ==
    last.op \in {"parse_protobuf_string", "parse_protobuf_varint"} =>
        LET header == IF last.op = "parse_protobuf_string" THEN 1 ELSE 0
            d == Drop(last.data, header)
            loop == varint_loop(d, 0, U64(0))
            read == IF loop.res = "Ok" /\ loop.i < 9 THEN loop.i + 1 ELSE loop.i
            low7(i) == d[i + 1] % 128
            digit(i) == IF i < read THEN low7(i) ELSE 0
            limb(j) == digit(4 * j) + 128 * digit(4 * j + 1)
                           + 16384 * digit(4 * j + 2) + 2097152 * digit(4 * j + 3)
            first(n) == SubSeq(last.data, 1, IF Len(last.data) < n THEN Len(last.data) ELSE n)
            cut == IF last.op = "parse_protobuf_string"
                   THEN parse_protobuf_string(first(10), last.field_number)
                   ELSE parse_protobuf_varint(first(9))
            headers == {"FieldMismatch", "WireTypeMismatch",
                        "VarintTooShort", "VarintTooLong"}
        IN
        /\ last.res \in headers \cup {"Ok", "PayloadTooShort", "InvalidUtf8"}
        /\ read <= 9 /\ read <= Len(d)
        /\ loop.res # "VarintTooShort" =>
               /\ loop.len = <<limb(0), limb(1), digit(8)>>
               /\ loop.len[3] < 128
        /\ last.res \in headers <=> cut.res \in headers
        /\ last.res \in headers => cut.res = last.res
        /\ last.op = "parse_protobuf_varint" =>
               /\ cut.len = last.len /\ cut.high = last.high
               /\ last.res = "Ok" =>
                      /\ read + Len(last.rest) = Len(d)
                      /\ last.rest = Drop(d, read)
        /\ (last.op = "parse_protobuf_string" /\ last.res = "Ok" /\ last.data # <<>>) =>
               /\ read + Len(last.value) + Len(last.rest) = Len(d)
               /\ last.value \o last.rest = Drop(d, read)

\* C34 witness: eight bytes 0xFF and 0x7F were read as the length 2^63 - 1.
C34_Witness ==
    /\ last.op = "parse_protobuf_varint"
    /\ last.data = Rep(255, 8) \o <<127, 97>>
    /\ last.res = "Ok"
    /\ last.len = Limb - 1
    /\ last.high = <<Limb - 1, 127>>
    /\ last.rest = <<97>>

\* C31: every denom that has a metadata record has an admin entry; metadata
\* is never stored for a denom that was not created.
C31_MetadataOnlyOfCreated ==
    \A denom \in DOMAIN METADATA : denom \in DOMAIN ADMIN

\* C31 witness: govner made factory/govner/fundz and handed it to townies,
\* who then set its metadata.
C31_Witness ==
    /\ last.op = "SetMetadata"
    /\ last.res = "Ok"
    /\ last.sender = townies
    /\ last.denom = FullDenom(govner, fundz)
    /\ FullDenom(govner, fundz) \in DOMAIN METADATA
    /\ FullDenom(govner, fundz) \in DOMAIN ADMIN

\* C35: in build_denom the two tests of the total length never decide: the
\* candidate has at least 9 bytes, so it is never shorter than 3, and one
\* of more than 128 bytes has a creator of more than 75 or a subdenom of
\* more than 44 bytes; build_denom fails exactly when the creator holds a
\* '/', the creator has more than 75 bytes or the subdenom more than 44.
C35_LengthTestsNeverDecide ==
    last.op = "build_denom" =>
        /\ Len(last.denom) >= 9
        /\ Len(last.denom) = 9 + Len(last.creator) + Len(last.subdenom)
        /\ Len(last.denom) > 128 => (Len(last.creator) > 75 \/ Len(last.subdenom) > 44)
        /\ last.res # "Ok" <=>
               \/ \E i \in 1..Len(last.creator) : last.creator[i] = "/"
               \/ Len(last.creator) > 75
               \/ Len(last.subdenom) > 44

\* C35 witness: a creator of 75 and a subdenom of 45 bytes give a candidate
\* of 129 bytes, the shortest that is too long, and it is refused.
C35_Witness ==
    /\ last.op = "build_denom"
    /\ Len(last.creator) = 75
    /\ Len(last.subdenom) = 45
    /\ Len(last.denom) = 129
    /\ last.res = "InvalidFullDenom"

\* C32: build_denom is injective on what it accepts: no other pair of
\* creator and subdenom that validates gives the denom of a pair that
\* validates.  So a CreateDenom that meets TokenExists meets a denom its own
\* sender created, and one that succeeds writes an admin entry that was
\* not there and leaves every other entry as it was.
C32_BuildDenomInjective ==
    /\ [](last.op = "CreateDenom" =>
             \A c \in CloseSenders, sd \in CloseSubdenoms :
                 (/\ build_denom(c, sd).ok
                  /\ build_denom(last.sender, last.subdenom).ok
                  /\ build_denom(c, sd).denom = last.denom) =>
                     (c = last.sender /\ sd = last.subdenom))
    /\ [][last'.op = "CreateDenom" =>
             /\ last'.res = "TokenExists" =>
                    /\ last'.sender \in DOMAIN DENOMS_BY_CREATOR
                    /\ \E i \in 1..Len(DENOMS_BY_CREATOR[last'.sender]) :
                           DENOMS_BY_CREATOR[last'.sender][i] = last'.denom
                    /\ ADMIN' = ADMIN
             /\ last'.res = "Ok" =>
                    /\ last'.denom \notin DOMAIN ADMIN
                    /\ ADMIN'[last'.denom] = last'.sender
                    /\ \A d \in DOMAIN ADMIN : ADMIN'[d] = ADMIN[d]]_vars

\* C32 witness: govner has made factory/govner/x/fundz from the subdenom
\* x/fundz, and the sender govner/x, whose subdenom fundz spells the same
\* string, was refused.
C32_Witness ==
    /\ last.op = "CreateDenom"
    /\ last.sender = govner_x
    /\ last.subdenom = fundz
    /\ last.res = "InvalidFullDenom"
    /\ last.denom = FullDenom(govner, x_fundz)
    /\ last.denom \in DOMAIN ADMIN
    /\ ADMIN[last.denom] = govner

\* C33 (as stated): every denom the registry has created is accepted by the
\* contract's validate_denom, and so can be handed to the contract's
\* ChangeAdmin, MintTokens, BurnTokens and ForceTransfer.
C33_CreatedDenomsValidate ==
    \A denom \in DOMAIN ADMIN :
        /\ validate_denom(denom).res = "Ok"
        /\ change_admin(denom, townies).res = "Ok"
        /\ mint_tokens(denom, 1, townies).res = "Ok"
        /\ burn_tokens(denom, 1, townies).res = "Ok"
        /\ force_transfer(denom, 1, govner, townies).res = "Ok"

====
